---- MODULE Spec2Model ----
(***************************************************************************)
(* Service lifecycle and supervision engine of modern/service.py.          *)
(*                                                                         *)
(* Every coroutine call (start, maybe_start, stop, restart, crash) is a    *)
(* frame with a program counter.  A step of the model runs one frame from  *)
(* the point where it was suspended to its next suspension point, as the   *)
(* asyncio event loop does: code between two awaits is atomic.  The hooks  *)
(* (on_start, on_stop, ...) are user code and may suspend, so every hook   *)
(* await is a suspension point.                                            *)
(*                                                                         *)
(* A service is a Service or a ServiceThread (modern/threads.py), which    *)
(* runs its tasks on the event loop of a thread of its own.  Loop 0 is the *)
(* loop the environment runs on; the loop of a thread has the number of    *)
(* the thread.                                                             *)
(***************************************************************************)
EXTENDS Integers, Sequences, FiniteSets, TLC

\* beat: the parity of the turns of the event loop (bookkeeping for the
\* fairness condition; the program keeps no such field).
VARIABLES state, stopped, should_stop, crash_reason, start_count, level,
          children, tasks_to_start, tasks, tstat, tgen, hooks,
          context_managers, async_context_managers, exit_stack,
          async_exit_stack, astacks, nstk, rlog,
          klass, thread_data, thread_loop, threads, nthr,
          frames, ret, issued, quota, beat

vars == <<state, stopped, should_stop, crash_reason, start_count, level,
          children, tasks_to_start, tasks, tstat, tgen, hooks,
          context_managers, async_context_managers, exit_stack,
          async_exit_stack, astacks, nstk, rlog,
          klass, thread_data, thread_loop, threads, nthr,
          frames, ret, issued, quota, beat>>

\* ---------------------------------------------------------------- bounds

\* Number of calls the environment makes on the public API in one behaviour.
MaxCalls == 3

\* The same, for a parent that has its child from the beginning.
MaxFamilyCalls == 3

\* The same, for a service whose resources are registered by calls.
MaxResCalls == 4

\* The same, for calls made one after the other.
MaxCycleCalls == 6

\* The same, for a parent set up with a child, resources and a task.
MaxOrderCalls == 2
MaxWaitCalls == 4
MaxTaskCalls == 4
MaxRuntimeCalls == 5
MaxTimerRuns == 2
MaxLateCalls == 5
MaxTwiceCalls == 3
MaxFailCalls == 4
MaxCrashedCalls == 4

\* Slots for coroutine frames alive at the same time.
MaxFrames == 6

\* ------------------------------------------------------------- constants

Services == {"p", "c"}

\* add_dependency(parent, child) pairs the environment uses (an acyclic tree).
Adoptable == {<<"p", "c">>}

\* Errors handed to crash() by the environment.
Reasons == {"E1"}

\* Bodies of registered tasks: one that sleeps until cancelled, and one that
\* raises at once on every attempt.
TaskKinds == {"sleeper", "failing", "flaky"}

\* Scoped resources the environment registers; acquiring one of BadRes raises.
Res == {"r1", "r2", "rbad"}

BadRes == {"rbad"}

ServiceState == {"INIT", "STARTING", "RUNNING", "STOPPING", "CRASHED", "SHUTDOWN"}

STATES_ACTIVE == {"RUNNING", "STOPPING"}

STATES_INACTIVE == {"INIT", "SHUTDOWN"}

STATES_RESTARTABLE == {"RUNNING", "CRASHED", "SHUTDOWN"}

\* for fail in range(10)
MaxAttempts == 10

FrameIds == 1..MaxFrames

Range(q) == {q[n] : n \in 1..Len(q)}

NoHooks == [first_start |-> 0, start |-> 0, started |-> 0,
            stop |-> 0, shutdown |-> 0, restart |-> 0, task1_run |-> 0,
            timer_run |-> 0]

\* self._exit_stack: None, or an ExitStack holding the entered resources.
NoStack == [set |-> FALSE, items |-> <<>>]

\* A coroutine frame.  op is the call, svc its service, pc the code it runs
\* next and wait what it is suspended on; caller is the frame awaiting it
\* (inl: awaiting it directly, not through gather), ext marks a call of the
\* environment; reason, snap (running_tasks), idx (loop index), lst (the
\* AsyncExitStack in use), k (where _stop_running_tasks returns to) and err
\* are its locals; loop is the event loop it runs on and th the ThreadData
\* whose event it waits for.  solo, s0, ch0, t0 and h0 are bookkeeping for
\* the claims: whether no other call overlapped this one, and the state of
\* the service, the states of its children, its unfinished tasks and the
\* hook counts when the call began, and in r0 the resource log of the
\* service, its registered resources and the resources its stacks held.
NoRes0 == [log |-> <<>>, acm |-> <<>>, cm |-> <<>>, aheld |-> <<>>, held |-> <<>>]

NoFrame == [op |-> "none", svc |-> "-", pc |-> "-", wait |-> "-", caller |-> 0,
            inl |-> FALSE, ext |-> FALSE, reason |-> "None", snap |-> {},
            idx |-> 0, lst |-> 0, k |-> "-", err |-> "-", loop |-> 0, th |-> 0,
            solo |-> FALSE, s0 |-> "-", ch0 |-> {}, t0 |-> {},
            h0 |-> [s \in Services |-> NoHooks], r0 |-> NoRes0]

\* ------------------------------------------------------- the whole state

Cur == [state |-> state, stopped |-> stopped, should_stop |-> should_stop,
        crash_reason |-> crash_reason, start_count |-> start_count,
        level |-> level, children |-> children,
        tasks_to_start |-> tasks_to_start, tasks |-> tasks, tstat |-> tstat,
        tgen |-> tgen, hooks |-> hooks,
        context_managers |-> context_managers,
        async_context_managers |-> async_context_managers,
        exit_stack |-> exit_stack, async_exit_stack |-> async_exit_stack,
        astacks |-> astacks, nstk |-> nstk, rlog |-> rlog,
        thread_data |-> thread_data, thread_loop |-> thread_loop,
        threads |-> threads, nthr |-> nthr,
        frames |-> frames, ret |-> ret, full |-> FALSE]

Apply(S) ==
    /\ ~S.full
    /\ state' = S.state
    /\ stopped' = S.stopped
    /\ should_stop' = S.should_stop
    /\ crash_reason' = S.crash_reason
    /\ start_count' = S.start_count
    /\ level' = S.level
    /\ children' = S.children
    /\ tasks_to_start' = S.tasks_to_start
    /\ tasks' = S.tasks
    /\ tstat' = S.tstat
    /\ tgen' = S.tgen
    /\ hooks' = S.hooks
    /\ context_managers' = S.context_managers
    /\ async_context_managers' = S.async_context_managers
    /\ exit_stack' = S.exit_stack
    /\ async_exit_stack' = S.async_exit_stack
    /\ astacks' = {a \in S.astacks :
                      \/ a.items # <<>>
                      \/ \E s \in Services : S.async_exit_stack[s] = a.id
                      \/ \E i \in FrameIds : S.frames[i].lst = a.id}
    /\ nstk' = S.nstk
    /\ rlog' = S.rlog
    /\ klass' = klass
    /\ thread_data' = S.thread_data
    /\ thread_loop' = S.thread_loop
    /\ threads' = {x \in S.threads :
                      \/ x.pc # "done"
                      \/ \E y \in S.threads : y.pc # "done" /\ y.ev = x.id
                      \/ \E s \in Services : x.id \in {S.thread_data[s], S.thread_loop[s]}
                      \/ \E i \in FrameIds :
                             /\ S.frames[i].op # "none"
                             /\ x.id \in {S.frames[i].th, S.frames[i].loop}}
    /\ nthr' = S.nthr
    /\ frames' = S.frames
    /\ ret' = S.ret

\* Service.__init__ and ServiceThread.__init__
Fresh ==
    /\ state = [s \in Services |-> "INIT"]
    /\ stopped = [s \in Services |-> FALSE]
    /\ should_stop = [s \in Services |-> FALSE]
    /\ crash_reason = [s \in Services |-> "None"]
    /\ start_count = [s \in Services |-> 0]
    /\ tasks_to_start = [s \in Services |-> <<>>]
    /\ tasks = [s \in Services |-> {}]
    /\ tstat = {}
    /\ tgen = [s \in Services |-> 0]
    /\ hooks = [s \in Services |-> NoHooks]
    /\ context_managers = [s \in Services |-> <<>>]
    /\ async_context_managers = [s \in Services |-> <<>>]
    /\ exit_stack = [s \in Services |-> NoStack]
    /\ async_exit_stack = [s \in Services |-> 0]
    /\ astacks = {}
    /\ nstk = 0
    /\ rlog = <<>>
    /\ thread_data = [s \in Services |-> 0]
    /\ thread_loop = [s \in Services |-> 0]
    /\ threads = {}
    /\ nthr = 0
    /\ frames = [i \in FrameIds |-> NoFrame]
    /\ ret = [op |-> "none", svc |-> "-", val |-> "-"]
    /\ issued = 0

\* No service has a child.
NoChildren ==
    /\ level = [s \in Services |-> 0]
    /\ children = [s \in Services |-> <<>>]

\* Every service is a Service.
Init ==
    /\ Fresh
    /\ NoChildren
    /\ klass = [s \in Services |-> "Service"]
    /\ quota = MaxCalls
    /\ beat = "off"

\* Every service is a ServiceThread.
InitThread ==
    /\ Fresh
    /\ NoChildren
    /\ klass = [s \in Services |-> "ServiceThread"]
    /\ quota = MaxCalls
    /\ beat = "off"

\* ------------------------------------------------------------- helpers

\* Ids of the background tasks that have not finished.  A task is the
\* record [id, st, fails]: st is "run", or "cancel" once Task.cancel() was
\* called on it; fails counts the failed attempts of its guarded wrapper.
Unfinished(S) == {r.id : r \in S.tstat}

\* The lowest free frame slot.  With every slot taken the step is marked
\* full and is not taken: MaxFrames caps the coroutines in flight.
NewId(S) ==
    IF \A i \in FrameIds : S.frames[i].op # "none"
    THEN MaxFrames
    ELSE CHOOSE i \in FrameIds :
             /\ S.frames[i].op = "none"
             /\ \A j \in FrameIds : S.frames[j].op = "none" => i <= j

\* A call on service t overlaps every call in progress on t or on a parent
\* of t (bookkeeping for the claims; the program keeps no such field).
MarkOverlap(S, t, creator) ==
    [S EXCEPT !.frames = [j \in FrameIds |->
        IF /\ S.frames[j].op # "none"
           /\ j # creator
           /\ \/ S.frames[j].svc = t
              \/ t \in Range(S.children[S.frames[j].svc])
        THEN [S.frames[j] EXCEPT !.solo = FALSE]
        ELSE S.frames[j]]]

\* A new frame for op on service s.  w is "go" for a coroutine that runs at
\* once and "pending" for a task the loop has not started yet.  It runs on
\* the loop of the frame that awaits it.
Spawn(S, op, s, w, caller, inl, ext, reason) ==
    LET i == NewId(S)
        S1 == MarkOverlap(S, s, caller)
    IN  IF \A j \in FrameIds : S.frames[j].op # "none"
        THEN [S EXCEPT !.full = TRUE]
        ELSE
        [S1 EXCEPT !.frames[i] =
            [NoFrame EXCEPT !.op = op, !.svc = s, !.pc = op, !.wait = w,
                            !.caller = caller, !.inl = inl, !.ext = ext,
                            !.reason = reason,
                            !.loop = IF caller = 0 THEN 0
                                     ELSE S.frames[caller].loop]]

Suspend(S, i, pc, w) == [S EXCEPT !.frames[i].pc = pc, !.frames[i].wait = w]

Goto(S, i, pc) == [S EXCEPT !.frames[i].pc = pc]

Hook(S, s, h) == [S EXCEPT !.hooks[s][h] = @ + 1]

RECURSIVE Run(_, _)
RECURSIVE Step(_, _)
RECURSIVE Finish(_, _, _)
RECURSIVE SpawnAll(_, _, _, _, _)
RECURSIVE guarded_task(_, _, _, _)
RECURSIVE exit_contexts(_, _)

\* One pending task per element of the sequence q of services: the
\* coroutines handed to asyncio.gather.
SpawnAll(S, op, q, n, caller) ==
    IF n > Len(q) THEN S
    ELSE SpawnAll(Spawn(S, op, q[n], "pending", caller, FALSE, FALSE, "None"),
                  op, q, n + 1, caller)

Errors == {"AlreadyRunning", "NotRunning", "AcquireError"}

\* The coroutine of frame i returns (or raises) val.  The result of a call
\* made by the environment is kept in ret; a caller that awaits the
\* coroutine directly goes on in the same step; gather hands the first
\* exception of its coroutines to the caller and lets the others run on.
Finish(S, i, val) ==
    LET f == S.frames[i]
        S1 == [S EXCEPT !.frames[i] = NoFrame,
                        !.ret = IF f.ext
                                THEN [op |-> f.op, svc |-> f.svc, val |-> val]
                                ELSE @]
    IN  IF f.caller = 0 THEN S1
        ELSE IF f.inl /\ S1.frames[f.caller].wait = "call"
        THEN Run([S1 EXCEPT !.frames[f.caller].wait = "go"], f.caller)
        ELSE IF val \in Errors /\ S1.frames[f.caller].wait = "gather"
        THEN [S1 EXCEPT !.frames[f.caller].wait = "raise",
                        !.frames[f.caller].pc = "raise",
                        !.frames[f.caller].err = val]
        ELSE S1

\* The exception of a gathered coroutine leaves the awaiting coroutine.
raise(S, i) ==
    Finish([S EXCEPT !.frames = [j \in FrameIds |->
                IF S.frames[j].caller = i
                THEN [S.frames[j] EXCEPT !.caller = 0]
                ELSE S.frames[j]]],
           i, S.frames[i].err)

\* ------------------------------------------------------ guards of the API

\* A start guard that refuses only the active states.
start_rejects_active(st) == st \in STATES_ACTIVE

\* start: if self._state not in _STATES_INACTIVE: raise ServiceAlreadyRunError
start_rejects(st) == st \notin STATES_INACTIVE

\* A maybe_start guard that accepts every state start() accepts.
maybe_start_accepts_inactive(st) == st \in STATES_INACTIVE

\* maybe_start: if self._state is ServiceState.INIT
maybe_start_accepts(st) == st = "INIT"

\* A crash guard that refuses only the states in which start() is accepted.
crash_rejects_inactive(st) == st \in STATES_INACTIVE

\* crash: if self._state not in _STATES_ACTIVE: raise ServiceNotRunError
crash_rejects(st) == st \notin STATES_ACTIVE

\* A restart guard that refuses only a service that was never started.
restart_rejects_init(st) == st = "INIT"

\* restart: if self._state not in _STATES_RESTARTABLE: raise ServiceNotRunError
restart_rejects(st) == st \notin STATES_RESTARTABLE

\* A stop without the early return.
stop_never_returns_early(isset) == FALSE

\* stop: if self._stopped.is_set(): return
stop_returns_early(isset) == isset

\* The call of frame i begins (bookkeeping for the claims; the program
\* keeps no such fields).
Items(S, id) == (CHOOSE a \in S.astacks : a.id = id).items

SetItems(S, id, q) ==
    [S EXCEPT !.astacks = {IF a.id = id THEN [a EXCEPT !.items = q] ELSE a : a \in @}]

\* The entries of the resource log that are about service s.
OwnLog(log, s) == SelectSeq(log, LAMBDA e : e[2] = s)

Enter(S, i) ==
    LET s == S.frames[i].svc
        others == {j \in FrameIds \ {i} :
                      /\ S.frames[j].op # "none"
                      /\ \/ S.frames[j].svc = s
                         \/ S.frames[j].svc \in Range(S.children[s])}
    IN  [S EXCEPT !.frames[i].solo = (others = {}),
                  !.frames[i].s0 = S.state[s],
                  !.frames[i].ch0 =
                      {<<c, S.state[c]>> : c \in Range(S.children[s])},
                  !.frames[i].t0 = S.tasks[s] \cap Unfinished(S),
                  !.frames[i].h0 = S.hooks,
                  !.frames[i].r0 =
                      [log |-> OwnLog(S.rlog, s),
                       acm |-> S.async_context_managers[s],
                       cm |-> S.context_managers[s],
                       aheld |-> IF S.async_exit_stack[s] = 0 THEN <<>>
                                 ELSE Items(S, S.async_exit_stack[s]),
                       held |-> S.exit_stack[s].items]]

\* --------------------------------------------------------- Service.start

\* The guard, STARTING, stopped.clear() and the first hook.
start(S, i) ==
    LET s == S.frames[i].svc
        S0 == IF S.frames[i].op = "restart" THEN S ELSE Enter(S, i)
        S1 == [S0 EXCEPT !.state[s] = "STARTING", !.stopped[s] = FALSE]
    IN  IF start_rejects(S.state[s])
        THEN Finish(S, i, "AlreadyRunning")
        ELSE IF S.start_count[s] = 0
             THEN Suspend(Hook(S1, s, "first_start"), i, "st_on_start", "hook")
             ELSE Goto(S1, i, "st_on_start")

\* await self.on_start()
start_on_start(S, i) ==
    Suspend(Hook(S, S.frames[i].svc, "start"), i, "st_children", "hook")

\* A start that leaves the children alone.
start_children_skipped(S, i) == Goto(S, i, "st_async")

\* await asyncio.gather(*(child.maybe_start() for child in self._children))
start_children(S, i) ==
    LET s == S.frames[i].svc
    IN  IF S.children[s] # <<>>
        THEN Suspend(SpawnAll(S, "maybe_start", S.children[s], 1, i),
                     i, "st_async", "gather")
        ELSE Goto(S, i, "st_async")

\* if self._async_context_managers:
\*     async_exit_stack = self._async_exit_stack = AsyncExitStack()
start_async(S, i) ==
    LET s == S.frames[i].svc
        id == S.nstk + 1
    IN  IF S.async_context_managers[s] # <<>>
        THEN Goto([S EXCEPT !.nstk = id,
                            !.astacks = @ \cup {[id |-> id, items |-> <<>>]},
                            !.async_exit_stack[s] = id,
                            !.frames[i].lst = id,
                            !.frames[i].idx = 1],
                  i, "st_async_enter")
        ELSE Goto(S, i, "st_sync")

\* for async_context_manager in self._async_context_managers:
\*     await async_exit_stack.enter_async_context(async_context_manager)
\* and, after the loop, self._async_context_managers.clear()
start_async_enter(S, i) ==
    LET s == S.frames[i].svc
        n == S.frames[i].idx
        id == S.frames[i].lst
        q == S.async_context_managers[s]
    IN  IF n <= Len(q)
        THEN IF q[n] \in BadRes
             THEN Finish([S EXCEPT !.frames[i].lst = 0], i, "AcquireError")
             ELSE Suspend([SetItems(S, id, Append(Items(S, id), q[n]))
                              EXCEPT !.frames[i].idx = n + 1,
                                     !.rlog = Append(@, <<"acquire", s, q[n]>>)],
                          i, "st_async_enter", "hook")
        ELSE Goto([S EXCEPT !.async_context_managers[s] = <<>>,
                            !.frames[i].lst = 0],
                  i, "st_sync")

RECURSIVE enter_contexts(_, _, _)

\* for context_manager in self._context_managers:
\*     exit_stack.enter_context(context_manager)
\* from resource n on; an __enter__ that raises ends the loop with "failed".
enter_contexts(S, s, n) ==
    LET q == S.context_managers[s]
    IN  IF n > Len(q) THEN [S |-> S, failed |-> FALSE]
        ELSE IF q[n] \in BadRes THEN [S |-> S, failed |-> TRUE]
        ELSE enter_contexts(
                 [S EXCEPT !.exit_stack[s].items = Append(@, q[n]),
                           !.rlog = Append(@, <<"acquire", s, q[n]>>)],
                 s, n + 1)

\* if self._context_managers: exit_stack = self._exit_stack = ExitStack(); the
\* loop; self._context_managers.clear()
start_sync(S, i) ==
    LET s == S.frames[i].svc
        e == enter_contexts([S EXCEPT !.exit_stack[s] = [set |-> TRUE, items |-> <<>>]],
                            s, 1)
    IN  IF S.context_managers[s] = <<>>
        THEN Goto(S, i, "st_tasks")
        ELSE IF e.failed
             THEN Finish(e.S, i, "AcquireError")
             ELSE Goto([e.S EXCEPT !.context_managers[s] = <<>>], i, "st_tasks")

\* Service._create_my_tasks: one guarded task per registered task (numbered
\* 1..n in registration order) and the child-watch timer (number 0), all
\* appended to self._tasks.
create_my_tasks(S, s) ==
    LET g == S.tgen[s] + 1
        new == {<<s, n, g>> : n \in 0..Len(S.tasks_to_start[s])}
    IN  [S EXCEPT !.tgen[s] = g,
                  !.tasks[s] = @ \cup new,
                  !.tstat = @ \cup {[id |-> t, st |-> "run", fails |-> 0] : t \in new}]

\* A ThreadData record: the thread of a ServiceThread with its two events.
\* pc is where the thread's _run_tasks is ("new": not begun, "wait": at the
\* wait for child_tasks_stopped, "done": the thread has ended), ev the
\* ThreadData whose child_tasks_stopped it waits for.
Thread(S, id) == CHOOSE x \in S.threads : x.id = id

SetThread(S, x) ==
    [S EXCEPT !.threads = {IF y.id = x.id THEN x ELSE y : y \in @}]

\* ServiceThread._create_my_tasks: self._thread_data = ThreadData(...);
\* thread.start(); await self._thread_data.parent_tasks_started.wait()
thread_create_my_tasks(S, i) ==
    LET s == S.frames[i].svc
        id == S.nthr + 1
        x == [id |-> id, svc |-> s, parent_loop |-> S.frames[i].loop,
              started |-> FALSE, stopped |-> FALSE, pc |-> "new", ev |-> 0]
    IN  Suspend([S EXCEPT !.nthr = id,
                          !.threads = @ \cup {x},
                          !.thread_data[s] = id,
                          !.frames[i].th = id],
                i, "st_running", "started")

\* ServiceThread._run_tasks, on the loop of thread id: the tasks are created
\* on this loop, parent_tasks_started is set and the thread waits for
\* child_tasks_stopped, both of the ThreadData the service holds now.
run_tasks(S, id) ==
    LET x == Thread(S, id)
        s == x.svc
        d == S.thread_data[s]
        S1 == create_my_tasks([S EXCEPT !.thread_loop[s] = id], s)
        S2 == SetThread(S1, [Thread(S1, d) EXCEPT !.started = TRUE])
    IN  IF d # 0
        THEN SetThread(S2, [Thread(S2, id) EXCEPT !.pc = "wait", !.ev = d])
        ELSE SetThread(S, [x EXCEPT !.pc = "done"])

\* await self._create_my_tasks()
start_tasks(S, i) ==
    LET s == S.frames[i].svc
    IN  IF klass[s] = "ServiceThread"
        THEN thread_create_my_tasks(S, i)
        ELSE Goto(create_my_tasks(S, s), i, "st_running")

\* self._state = RUNNING; await self.on_started()
start_running(S, i) ==
    LET s == S.frames[i].svc
    IN  Suspend(Hook([S EXCEPT !.state[s] = "RUNNING"], s, "started"),
                i, "st_count", "hook")

\* A start that does not count itself.
start_count_kept(S, i) ==
    Finish(S, i, IF S.frames[i].op = "maybe_start" THEN "true" ELSE "ok")

\* self._start_count += 1, and the coroutine returns (maybe_start: True).
start_count_up(S, i) ==
    LET s == S.frames[i].svc
        S1 == [S EXCEPT !.start_count[s] = @ + 1]
    IN  Finish(S1, i, IF S.frames[i].op = "maybe_start" THEN "true" ELSE "ok")

\* Service.maybe_start
maybe_start(S, i) ==
    IF maybe_start_accepts(S.state[S.frames[i].svc])
    THEN Goto(S, i, "start")
    ELSE Finish(S, i, "false")

\* ------------------------------------------- Service._stop_running_tasks

\* running_tasks = [task for task in self._tasks if not task.done()], and
\* the wait with timeout=0.  next is where the caller goes on afterwards.
stop_running_tasks(S, i, next) ==
    LET s == S.frames[i].svc
        running == S.tasks[s] \cap Unfinished(S)
    IN  IF running = {}
        THEN Goto(S, i, next)
        ELSE Suspend([S EXCEPT !.frames[i].snap = running, !.frames[i].k = next],
                     i, "srt_cancel", "turn")

\* task.cancel() for every task of running_tasks that is not done, and the
\* wait without timeout.
srt_cancel(S, i) ==
    LET snap == S.frames[i].snap
        S1 == [S EXCEPT !.tstat =
                  {IF r.id \in snap THEN [r EXCEPT !.st = "cancel"] ELSE r : r \in @}]
    IN  Suspend(S1, i, "srt_done", "tasks")

srt_done(S, i) == Goto([S EXCEPT !.frames[i].snap = {}], i, S.frames[i].k)

\* ServiceThread._stop_running_tasks: if self._thread_loop is not None,
\* _stop_tasks_from_child_thread is handed to the thread's loop and its
\* result awaited.
thread_stop_running_tasks(S, i, next) ==
    LET s == S.frames[i].svc
        j == NewId(S)
        S1 == [S EXCEPT !.frames[j] =
                  [NoFrame EXCEPT !.op = "stop_child", !.svc = s,
                                  !.pc = "stop_child", !.wait = "pending",
                                  !.caller = i, !.loop = S.thread_loop[s]],
                        !.frames[i].k = next,
                        !.full = \A x \in FrameIds : S.frames[x].op # "none"]
    IN  IF S.thread_loop[s] # 0
        THEN Suspend(S1, i, "tsrt_clear", "gather")
        ELSE Goto(S, i, next)

\* self._thread_data = None; self._thread_loop = None
thread_srt_clear(S, i) ==
    LET s == S.frames[i].svc
    IN  Goto([S EXCEPT !.thread_data[s] = 0, !.thread_loop[s] = 0],
             i, S.frames[i].k)

\* ServiceThread._stop_tasks_from_child_thread, on the thread's loop.
stop_child(S, i) == stop_running_tasks(S, i, "sc_set")

\* if self._thread_data is not None: child_tasks_stopped.set()
stop_child_set(S, i) ==
    LET d == S.thread_data[S.frames[i].svc]
    IN  Finish(IF d # 0
               THEN SetThread(S, [Thread(S, d) EXCEPT !.stopped = TRUE])
               ELSE S,
               i, "ok")

\* await self._stop_running_tasks(), of the class of the service.
self_stop_running_tasks(S, i, next) ==
    IF klass[S.frames[i].svc] = "ServiceThread"
    THEN thread_stop_running_tasks(S, i, next)
    ELSE stop_running_tasks(S, i, next)

\* --------------------------------------------------------- Service.crash

\* self._stopped.set(): asyncio.Event.set resolves the future of every
\* coroutine waiting in Event.wait(), which the loop then resumes whether
\* or not the event is cleared in between.
set_stopped(S, s) ==
    [S EXCEPT !.stopped[s] = TRUE,
              !.frames = [j \in FrameIds |->
                  IF S.frames[j].wait = "stopped" /\ S.frames[j].svc = s
                  THEN [S.frames[j] EXCEPT !.wait = "turn"]
                  ELSE S.frames[j]]]

\* The guard, should_stop and the call of _stop_running_tasks.
crash(S, i) ==
    LET s == S.frames[i].svc
    IN  IF crash_rejects(S.state[s])
        THEN Finish(S, i, "NotRunning")
        ELSE self_stop_running_tasks([Enter(S, i) EXCEPT !.should_stop[s] = TRUE],
                                     i, "cr_stopped")

\* A crash that drops the synchronous stack of the service on its way.
crash_stopped_unwound(S, i) ==
    LET s == S.frames[i].svc
    IN  Goto([set_stopped(S, s) EXCEPT !.frames[i].idx = 1,
                                       !.exit_stack[s] = NoStack],
             i, "cr_children")

\* self._stopped.set()
crash_stopped(S, i) ==
    LET s == S.frames[i].svc
    IN  Goto([set_stopped(S, s) EXCEPT !.frames[i].idx = 1], i, "cr_children")

\* A crash that leaves the children alone.
crash_children_skipped(S, i) ==
    LET s == S.frames[i].svc
    IN  Finish([S EXCEPT !.crash_reason[s] = S.frames[i].reason,
                         !.state[s] = "CRASHED"],
               i, "ok")

\* for child in self._children: if child.get_state() in _STATES_ACTIVE:
\* await child.crash(reason); then crash_reason and CRASHED.
crash_children(S, i) ==
    LET s == S.frames[i].svc
        n == S.frames[i].idx
        r == S.frames[i].reason
    IN  IF n <= Len(S.children[s])
        THEN LET c == S.children[s][n]
                 S1 == [S EXCEPT !.frames[i].idx = n + 1]
             IN  IF S.state[c] \in STATES_ACTIVE
                 THEN LET j == NewId(S1)
                          S2 == [S1 EXCEPT !.frames[i].wait = "call"]
                      IN  Run(Spawn(S2, "crash", c, "go", i, TRUE, FALSE, r), j)
                 ELSE S1
        ELSE Finish([S EXCEPT !.crash_reason[s] = r, !.state[s] = "CRASHED"],
                    i, "ok")

\* ServiceThread.crash: NotRunning without thread data; on the parent loop
\* Service.crash runs; on another loop Service.crash is handed to the parent
\* loop and the call returns.
thread_crash(S, i) ==
    LET f == S.frames[i]
        s == f.svc
        d == S.thread_data[s]
        j == NewId(S)
        S1 == Spawn(S, "crash", s, "pending", 0, FALSE, FALSE, f.reason)
        S2 == [S1 EXCEPT !.frames[j].pc = "crash_super",
                         !.frames[j].loop = Thread(S, d).parent_loop]
    IN  IF d = 0
        THEN Finish(S, i, "NotRunning")
        ELSE IF f.loop = Thread(S, d).parent_loop
             THEN Goto(S, i, "crash_super")
             ELSE Finish(S2, i, "ok")

\* ----------------------------------------------------------- Service.stop

stop(S, i) ==
    LET s == S.frames[i].svc
        S1 == Enter(S, i)
    IN  IF stop_returns_early(S.stopped[s])
        THEN Finish(S1, i, "ok")
        ELSE Goto(S1, i, "sd")

\* ServiceThread.stop: without thread data, or on the parent loop,
\* Service.stop runs; on another loop self.stop() is handed to the parent
\* loop and the call returns.
thread_stop(S, i) ==
    LET f == S.frames[i]
        s == f.svc
        d == S.thread_data[s]
        j == NewId(S)
        S1 == Spawn(S, "stop", s, "pending", 0, FALSE, FALSE, "None")
        S2 == [S1 EXCEPT !.frames[j].loop = Thread(S, d).parent_loop]
    IN  IF d = 0 \/ f.loop = Thread(S, d).parent_loop
        THEN Goto(S, i, "stop_super")
        ELSE Finish(S2, i, "ok")

\* -------------------------------------------------------- Service.restart

restart(S, i) ==
    IF restart_rejects(S.state[S.frames[i].svc])
    THEN Finish(S, i, "NotRunning")
    ELSE Goto(Enter(S, i), i, "sd")

\* --------------------------------------------------- Service._do_shutdown

\* self._state = STOPPING; await self.on_stop()
do_shutdown(S, i) ==
    LET s == S.frames[i].svc
    IN  Suspend(Hook([S EXCEPT !.state[s] = "STOPPING"], s, "stop"),
                i, "sd_children", "hook")

\* self._should_stop = True; gather(child.stop() for child in self._children)
shutdown_children(S, i) ==
    LET s == S.frames[i].svc
        S1 == [S EXCEPT !.should_stop[s] = TRUE]
    IN  IF S.children[s] # <<>>
        THEN Suspend(SpawnAll(S1, "stop", S.children[s], 1, i),
                     i, "sd_async", "gather")
        ELSE Goto(S1, i, "sd_async")

\* if self._async_exit_stack: await self._async_exit_stack.__aexit__(...)
shutdown_async(S, i) ==
    LET s == S.frames[i].svc
    IN  IF S.async_exit_stack[s] # 0
        THEN Goto([S EXCEPT !.frames[i].lst = S.async_exit_stack[s]],
                  i, "sd_async_exit")
        ELSE Goto(S, i, "sd_sync")

\* AsyncExitStack.__aexit__: the resources are popped and released last
\* entered first, each release awaited.
shutdown_async_exit(S, i) ==
    LET s == S.frames[i].svc
        id == S.frames[i].lst
        q == Items(S, id)
    IN  IF q # <<>>
        THEN Suspend([SetItems(S, id, SubSeq(q, 1, Len(q) - 1))
                         EXCEPT !.rlog = Append(@, <<"release", s, q[Len(q)]>>)],
                     i, "sd_async_exit", "hook")
        ELSE Goto([S EXCEPT !.frames[i].lst = 0], i, "sd_sync")

\* An ExitStack that releases its resources first entered first.
exit_contexts_in_order(S, s) ==
    LET q == S.exit_stack[s].items
    IN  [S EXCEPT !.exit_stack[s].items = <<>>,
                  !.rlog = @ \o [k \in 1..Len(q) |-> <<"release", s, q[k]>>]]

\* ExitStack.__exit__: every entered resource is released, last entered first.
exit_contexts(S, s) ==
    LET q == S.exit_stack[s].items
    IN  IF q = <<>> THEN S
        ELSE exit_contexts(
                 [S EXCEPT !.exit_stack[s].items = SubSeq(q, 1, Len(q) - 1),
                           !.rlog = Append(@, <<"release", s, q[Len(q)]>>)],
                 s)

\* A shutdown that leaves the ExitStack alone.
shutdown_sync_skipped(S, i) == Goto(S, i, "sd_tasks")

\* if self._exit_stack: self._exit_stack.__exit__(None, None, None)
shutdown_sync(S, i) ==
    LET s == S.frames[i].svc
    IN  Goto(IF S.exit_stack[s].set THEN exit_contexts(S, s) ELSE S, i, "sd_tasks")

\* await self._stop_running_tasks()
shutdown_tasks(S, i) == self_stop_running_tasks(S, i, "sd_stopped")

\* self._stopped.set(); self._state = SHUTDOWN; await self.on_shutdown()
shutdown_stopped(S, i) ==
    LET s == S.frames[i].svc
        S1 == [set_stopped(S, s) EXCEPT !.state[s] = "SHUTDOWN"]
    IN  Suspend(Hook(S1, s, "shutdown"), i, "sd_reset", "hook")

\* Service._reset
reset(S, s) ==
    [S EXCEPT !.should_stop[s] = FALSE,
              !.tasks[s] = {},
              !.children[s] = <<>>,
              !.async_exit_stack[s] = 0,
              !.async_context_managers[s] = <<>>,
              !.exit_stack[s] = NoStack,
              !.context_managers[s] = <<>>,
              !.crash_reason[s] = "None"]

\* A restart whose on_restart runs in place of the reset.
shutdown_reset_skipped(S, i) ==
    LET s == S.frames[i].svc
    IN  IF S.frames[i].op = "restart"
        THEN Suspend(Hook(S, s, "restart"), i, "start", "hook")
        ELSE Finish(reset(S, s), i, "ok")

\* self._reset(); stop returns; restart goes on with await self.on_restart()
shutdown_reset(S, i) ==
    LET s == S.frames[i].svc
        S1 == reset(S, s)
    IN  IF S.frames[i].op = "restart"
        THEN Suspend(Hook(S1, s, "restart"), i, "start", "hook")
        ELSE Finish(S1, i, "ok")

RECURSIVE set_level(_, _, _, _)

\* Service.set_level, over the children from child n on.
set_level(S, s, lv, n) ==
    IF n = 0
    THEN set_level([S EXCEPT !.level[s] = lv], s, lv, 1)
    ELSE IF n > Len(S.children[s])
         THEN S
         ELSE set_level(set_level(S, S.children[s][n], lv + 1, 0), s, lv, n + 1)

\* Service.add_dependency
add_dependency(S, s, c) ==
    LET S1 == set_level(S, c, S.level[s] + 1, 0)
    IN  [S1 EXCEPT !.children[s] = Append(@, c)]

\* ------------------------------------------ the dependencies at run time

\* Service.add_runtime_dependency of the service kept in k: add_dependency,
\* and await service.maybe_start() if the state is RUNNING.
add_runtime_dependency(S, i) ==
    LET s == S.frames[i].svc
        c == S.frames[i].k
        S1 == Enter(add_dependency(S, s, c), i)
        j == NewId(S1)
    IN  IF S.state[s] = "RUNNING"
        THEN Run(Spawn(Suspend(S1, i, "ard_return", "call"),
                       "maybe_start", c, "go", i, TRUE, FALSE, "None"), j)
        ELSE Finish(S1, i, c)

\* return service
dependency_return(S, i) == Finish(S, i, S.frames[i].k)

\* list.remove: the sequence without its first element equal to c.
remove(q, c) ==
    LET n == CHOOSE m \in 1..Len(q) : q[m] = c /\ \A l \in 1..(m - 1) : q[l] # c
    IN  SubSeq(q, 1, n - 1) \o SubSeq(q, n + 1, Len(q))

\* A remove_dependency that leaves the removed service as it is.
remove_dependency_no_stop(S, i) ==
    LET s == S.frames[i].svc
        c == S.frames[i].k
        S1 == Enter(S, i)
    IN  IF c \notin Range(S.children[s])
        THEN Finish(S1, i, "ValueError")
        ELSE Finish([S1 EXCEPT !.children[s] = remove(@, c)], i, c)

\* Service.remove_dependency of the service kept in k:
\* self._children.remove(service), which raises ValueError when the service
\* is not in the list; await service.stop().
remove_dependency(S, i) ==
    LET s == S.frames[i].svc
        c == S.frames[i].k
        S1 == Enter(S, i)
        S2 == [S1 EXCEPT !.children[s] = remove(@, c)]
        j == NewId(S2)
    IN  IF c \notin Range(S.children[s])
        THEN Finish(S1, i, "ValueError")
        ELSE Run(Spawn(Suspend(S2, i, "rd_return", "call"),
                       "stop", c, "go", i, TRUE, FALSE, "None"), j)

\* ---------------------------------------------- Service.wait_until_stopped

\* if self._state is not ServiceState.RUNNING: raise ServiceNotRunError
wait_rejects(st) == st # "RUNNING"

\* Service.wait_until_stopped up to await self._stopped.wait(); the state
\* at the call is kept in s0 (bookkeeping for the claims).
wait_until_stopped(S, i) ==
    LET s == S.frames[i].svc
        S1 == [S EXCEPT !.frames[i].s0 = S.state[s]]
    IN  IF S.stopped[s]
        THEN Finish(S1, i, "ok")
        ELSE IF wait_rejects(S.state[s])
             THEN Finish(S1, i, "NotRunning")
             ELSE Suspend(S1, i, "wus_return", "stopped")

\* Event.wait() has returned.
wait_return(S, i) == Finish(S, i, "ok")

\* ------------------------------------------------------------ the loop

\* Frame i runs the code at its program counter.
Step(S, i) ==
    LET pc == S.frames[i].pc
    IN  CASE pc = "start" -> start(S, i)
          [] pc = "st_on_start" -> start_on_start(S, i)
          [] pc = "st_children" -> start_children(S, i)
          [] pc = "st_async" -> start_async(S, i)
          [] pc = "st_async_enter" -> start_async_enter(S, i)
          [] pc = "st_sync" -> start_sync(S, i)
          [] pc = "st_tasks" -> start_tasks(S, i)
          [] pc = "st_running" -> start_running(S, i)
          [] pc = "st_count" -> start_count_up(S, i)
          [] pc = "maybe_start" -> maybe_start(S, i)
          [] pc = "crash" -> IF klass[S.frames[i].svc] = "ServiceThread"
                             THEN thread_crash(S, i)
                             ELSE crash(S, i)
          [] pc = "crash_super" -> crash(S, i)
          [] pc = "cr_stopped" -> crash_stopped(S, i)
          [] pc = "cr_children" -> crash_children(S, i)
          [] pc = "stop" -> IF klass[S.frames[i].svc] = "ServiceThread"
                            THEN thread_stop(S, i)
                            ELSE stop(S, i)
          [] pc = "stop_super" -> stop(S, i)
          [] pc = "restart" -> restart(S, i)
          [] pc = "sd" -> do_shutdown(S, i)
          [] pc = "sd_children" -> shutdown_children(S, i)
          [] pc = "sd_async" -> shutdown_async(S, i)
          [] pc = "sd_async_exit" -> shutdown_async_exit(S, i)
          [] pc = "sd_sync" -> shutdown_sync(S, i)
          [] pc = "sd_tasks" -> shutdown_tasks(S, i)
          [] pc = "sd_stopped" -> shutdown_stopped(S, i)
          [] pc = "sd_reset" -> shutdown_reset(S, i)
          [] pc = "srt_cancel" -> srt_cancel(S, i)
          [] pc = "srt_done" -> srt_done(S, i)
          [] pc = "tsrt_clear" -> thread_srt_clear(S, i)
          [] pc = "stop_child" -> stop_child(S, i)
          [] pc = "sc_set" -> stop_child_set(S, i)
          [] pc = "raise" -> raise(S, i)
          [] pc = "wait_until_stopped" -> wait_until_stopped(S, i)
          [] pc = "add_runtime_dependency" -> add_runtime_dependency(S, i)
          [] pc = "ard_return" -> dependency_return(S, i)
          [] pc = "remove_dependency" -> remove_dependency(S, i)
          [] pc = "rd_return" -> dependency_return(S, i)
          [] pc = "wus_return" -> wait_return(S, i)

\* Frame i runs until it suspends or returns.
Run(S, i) ==
    IF S.full \/ S.frames[i].op = "none" \/ S.frames[i].wait # "go"
    THEN S
    ELSE Run(Step(S, i), i)

\* ------------------------------------------------------ background tasks

\* self.crash(reason) awaited inside the task of service s that found the
\* failure: the crash sets should_stop and cancels the unfinished tasks of
\* the service, the task that runs it among them, and ends there with the
\* cancellation.
create_crash_task_awaited(S, s, r) ==
    [S EXCEPT !.should_stop[s] = TRUE,
              !.tstat = {IF x.id \in S.tasks[s] THEN [x EXCEPT !.st = "cancel"]
                         ELSE x : x \in @}]

\* asyncio.create_task(self.crash(reason)) in a task of service s: the new
\* task runs on the loop of the service's tasks.
create_crash_task(S, s, r) ==
    LET j == NewId(S)
    IN  [Spawn(S, "crash", s, "pending", 0, FALSE, FALSE, r)
            EXCEPT !.frames[j].loop = S.thread_loop[s]]

RECURSIVE watch_children(_, _, _)

\* Service._watch_children from child n on: _schedule_crash creates a task
\* running self.crash(child.get_crash_reason() or RuntimeError(...)).
watch_children(S, s, n) ==
    IF S.state[s] # "RUNNING" \/ n > Len(S.children[s])
    THEN S
    ELSE LET c == S.children[s][n]
             r == IF S.crash_reason[c] = "None" THEN "RuntimeError"
                  ELSE S.crash_reason[c]
         IN  watch_children(
                 IF S.state[c] = "CRASHED"
                 THEN create_crash_task(S, s, r)
                 ELSE S,
                 s, n + 1)

\* A timer that runs its body at every wake-up, and ends afterwards if
\* should_stop is set.
timer_wake_unchecked(S, t) ==
    LET S1 == IF t[2] = 0
              THEN watch_children(S, t[1], 1)
              ELSE [S EXCEPT !.hooks[t[1]].timer_run = @ + 1]
    IN  IF S.should_stop[t[1]]
        THEN [S1 EXCEPT !.tstat = {r \in @ : r.id # t}]
        ELSE S1

\* Service._make_timer_task, the loop of a timer after a sleep: with
\* should_stop set the body is skipped and the loop ends, the wrapper
\* returning normally; otherwise the body runs (_watch_children for the
\* child-watch timer, number 0; the body of a registered timer returns at
\* once and is counted in timer_run) and the timer sleeps again.
timer_wake(S, t) ==
    IF S.should_stop[t[1]]
    THEN [S EXCEPT !.tstat = {r \in @ : r.id # t}]
    ELSE IF t[2] = 0
         THEN watch_children(S, t[1], 1)
         ELSE [S EXCEPT !.hooks[t[1]].timer_run = @ + 1]

\* A guarded task that gives up after one attempt.
guarded_task_no_retry(S, t, fail, good) ==
    LET r == CHOOSE x \in S.tstat : x.id = t
        S1 == [S EXCEPT !.hooks[t[1]].task1_run = @ + 1,
                        !.tstat = @ \ {r}]
    IN  IF fail = good
        THEN S1
        ELSE create_crash_task(S1, t[1], "TaskError")

\* Service._make_guarded_task for a body that raises at once on every
\* attempt but attempt good (counted from 0), where it returns; from
\* attempt fail on.  for fail in range(10): the body is awaited (the stub
\* counts the invocation in task1_run); its exception is kept as reason,
\* its normal return breaks out of the loop; when the loop runs out the
\* wrapper creates a task running self.crash(reason), and ends.
guarded_task(S, t, fail, good) ==
    LET r == CHOOSE x \in S.tstat : x.id = t
        S1 == [S EXCEPT !.hooks[t[1]].task1_run = @ + 1]
    IN  IF fail < MaxAttempts
        THEN IF fail = good
             THEN [S1 EXCEPT !.tstat = @ \ {r}]
             ELSE guarded_task(
                      [S1 EXCEPT !.tstat = (@ \ {r}) \cup {[r EXCEPT !.fails = @ + 1]}],
                      t, fail + 1, good)
        ELSE create_crash_task([S EXCEPT !.tstat = @ \ {r}], t[1], "TaskError")

\* ---------------------------------------------------------------- actions

\* The turns of the event loop are told apart from the calls by beat: a
\* turn that changes anything flips it between "tick" and "tock"; "off"
\* stays (a specification that needs no fairness starts with "off").
Flip(b) == CASE b = "tick" -> "tock" [] b = "tock" -> "tick" [] OTHER -> b

FreeFrames == {i \in FrameIds : frames[i].op = "none"}

\* No call is in progress.
Quiet == \A i \in FrameIds : frames[i].op = "none"

\* Code running on loop l calls op on service s.
CallOn(op, s, r, l) ==
    LET j == NewId(Cur)
    IN  /\ issued < quota
        /\ FreeFrames # {}
        /\ Apply(Run([Spawn(Cur, op, s, "go", 0, FALSE, TRUE, r)
                         EXCEPT !.frames[j].loop = l], j))
        /\ issued' = issued + 1
        /\ UNCHANGED <<quota, beat>>

\* The environment calls op on service s.
Call(op, s, r) == CallOn(op, s, r, 0)

Start(s) == Call("start", s, "None")

MaybeStart(s) == Call("maybe_start", s, "None")

Stop(s) == Call("stop", s, "None")

Restart(s) == Call("restart", s, "None")

Crash(s, r) == Call("crash", s, r)

\* The environment calls wait_until_stopped on service s.  The call reads
\* the service and changes none of its fields, so it is not counted as
\* overlapping the calls in progress.
WaitUntilStopped(s) ==
    LET j == NewId(Cur)
        S0 == [Cur EXCEPT !.frames[j] =
                  [NoFrame EXCEPT !.op = "wait_until_stopped", !.svc = s,
                                  !.pc = "wait_until_stopped", !.wait = "go",
                                  !.ext = TRUE]]
    IN  /\ issued < quota
        /\ FreeFrames # {}
        /\ Apply(Run(S0, j))
        /\ issued' = issued + 1
        /\ UNCHANGED <<quota, beat>>

\* The environment calls op, add_runtime_dependency or remove_dependency,
\* on service s with service c.
CallWith(op, s, c) ==
    LET j == NewId(Cur)
    IN  /\ issued < quota
        /\ FreeFrames # {}
        /\ Apply(Run([Spawn(Cur, op, s, "go", 0, FALSE, TRUE, "None")
                         EXCEPT !.frames[j].k = c], j))
        /\ issued' = issued + 1
        /\ UNCHANGED <<quota, beat>>

\* The environment hands s a service that s has not adopted.
AddRuntimeDependency(s, c) ==
    /\ <<s, c>> \in Adoptable
    /\ c \notin Range(children[s])
    /\ CallWith("add_runtime_dependency", s, c)

RemoveDependency(s, c) ==
    /\ <<s, c>> \in Adoptable
    /\ CallWith("remove_dependency", s, c)

\* Code of service s running on the loop of its thread calls crash or stop.
CrashFromChild(s, r) ==
    \E x \in threads : x.svc = s /\ x.pc = "wait" /\ CallOn("crash", s, r, x.id)

StopFromChild(s) ==
    \E x \in threads : x.svc = s /\ x.pc = "wait" /\ CallOn("stop", s, "None", x.id)

\* The loop of frame i is running, and what the frame waits for has
\* happened.
Ready(i) ==
    LET f == frames[i]
    IN  /\ f.loop # 0 => Thread(Cur, f.loop).pc # "done"
        /\ \/ f.wait \in {"pending", "hook", "turn", "raise"}
           \/ f.wait = "tasks" /\ f.snap \cap Unfinished(Cur) = {}
           \/ f.wait = "gather" /\ \A j \in FrameIds : frames[j].caller # i
           \/ f.wait = "started" /\ Thread(Cur, f.th).started

\* The event loop resumes frame i.
Resume(i) ==
    /\ frames[i].op # "none"
    /\ Ready(i)
    /\ Apply(Run([Cur EXCEPT !.frames[i].wait = "go"], i))
    /\ UNCHANGED <<issued, quota>>
    /\ beat' = Flip(beat)

\* The thread x begins: asyncio.run(self._run_tasks()).
RunTasks(x) ==
    /\ x.pc = "new"
    /\ Apply(run_tasks(Cur, x.id))
    /\ UNCHANGED <<issued, quota>>
    /\ beat' = Flip(beat)

\* child_tasks_stopped is set: _run_tasks returns and the thread ends.
ThreadEnd(x) ==
    /\ x.pc = "wait"
    /\ Thread(Cur, x.ev).stopped
    /\ Apply(SetThread(Cur, [x EXCEPT !.pc = "done"]))
    /\ UNCHANGED <<issued, quota>>
    /\ beat' = Flip(beat)

\* The sleep of a timer ends.  A crash the timer scheduled at its last
\* wake-up is a ready task, which the loop starts before the timer's next
\* sleep can end.
TimerWake(t) ==
    /\ [id |-> t, st |-> "run", fails |-> 0] \in tstat
    /\ IF t[2] = 0 THEN TRUE
       ELSE /\ tasks_to_start[t[1]][t[2]] = "timer"
            /\ hooks[t[1]].timer_run < MaxTimerRuns
    /\ \A j \in FrameIds : ~(/\ frames[j].op = "crash"
                             /\ frames[j].svc = t[1]
                             /\ frames[j].wait = "pending")
    /\ Apply(timer_wake(Cur, t))
    /\ UNCHANGED <<issued, quota>>
    /\ beat' = IF timer_wake(Cur, t) = Cur THEN beat ELSE Flip(beat)

\* A guarded wrapper that handles the cancellation of the body like any
\* other exception of it.
task_cancelled_retried(S, t) == guarded_task(S, t, 1, MaxAttempts)

\* Service._make_guarded_task for a body in which CancelledError is raised:
\* except asyncio.CancelledError: raise.  The task ends, cancelled.
task_cancelled(S, t) == [S EXCEPT !.tstat = {r \in @ : r.id # t}]

\* A task whose cancel() was called ends with CancelledError, which the
\* guarded wrapper re-raises.
TaskCancelled(t) ==
    /\ \E r \in tstat : r.id = t /\ r.st = "cancel"
    /\ Apply(task_cancelled(Cur, t))
    /\ UNCHANGED <<issued, quota>>
    /\ beat' = Flip(beat)

\* The body of a registered task raises.
TaskFail(t) ==
    /\ \E r \in tstat : r.id = t /\ r.st = "run"
    /\ t[2] > 0
    /\ tasks_to_start[t[1]][t[2]] = "failing"
    /\ FreeFrames # {}
    /\ Apply(guarded_task(Cur, t, 0, MaxAttempts))
    /\ UNCHANGED <<issued, quota>>
    /\ beat' = Flip(beat)

\* The attempts at which the body of a "flaky" task may return: the first
\* and the last.
FlakyAt == {0, MaxAttempts - 1}

\* The body of a registered task raises on every attempt before attempt n,
\* where it returns.
TaskReturn(t, n) ==
    /\ \E r \in tstat : r.id = t /\ r.st = "run"
    /\ t[2] > 0
    /\ tasks_to_start[t[1]][t[2]] = "flaky"
    /\ n \in FlakyAt
    /\ Apply(guarded_task(Cur, t, 0, n))
    /\ UNCHANGED <<issued, quota>>
    /\ beat' = Flip(beat)

AddDependency(s, c) ==
    /\ issued < quota
    /\ <<s, c>> \in Adoptable
    /\ c \notin Range(children[s])
    /\ Apply(add_dependency(MarkOverlap(Cur, s, 0), s, c))
    /\ issued' = issued + 1
    /\ UNCHANGED <<quota, beat>>

\* Service.add_context
add_context(S, s, r) ==
    [S EXCEPT !.context_managers[s] = Append(@, r)]

\* The environment registers a resource it has not registered or handed
\* over yet.
AddContext(s, r) ==
    /\ issued < quota
    /\ r \notin Range(context_managers[s]) \cup Range(async_context_managers[s])
    /\ Apply(add_context(MarkOverlap(Cur, s, 0), s, r))
    /\ issued' = issued + 1
    /\ UNCHANGED <<quota, beat>>

\* Service.add_async_context
add_async_context(S, s, r) ==
    [S EXCEPT !.async_context_managers[s] = Append(@, r)]

AddAsyncContext(s, r) ==
    /\ issued < quota
    /\ r \notin Range(context_managers[s]) \cup Range(async_context_managers[s])
    /\ Apply(add_async_context(MarkOverlap(Cur, s, 0), s, r))
    /\ issued' = issued + 1
    /\ UNCHANGED <<quota, beat>>

\* An add_task that is refused only while the service is active.
add_task_rejects_active(st) == st \in STATES_ACTIVE

\* if self._state is not ServiceState.INIT: raise ServiceAlreadyRunError
add_task_rejects(st) == st # "INIT"

\* Service.add_task
add_task(S, s, k) ==
    IF add_task_rejects(S.state[s])
    THEN [S EXCEPT !.ret = [op |-> "add_task", svc |-> s, val |-> "AlreadyRunning"]]
    ELSE [S EXCEPT !.tasks_to_start[s] = Append(@, k),
                   !.ret = [op |-> "add_task", svc |-> s, val |-> "ok"]]

AddTask(s, k) ==
    /\ issued < quota
    /\ k \notin Range(tasks_to_start[s])
    /\ Apply(add_task(Cur, s, k))
    /\ issued' = issued + 1
    /\ UNCHANGED <<quota, beat>>

\* Service.add_timer_task: self.add_task(self._make_timer_task(func,
\* interval)); the registered task is the timer wrapped around func.
add_timer_task(S, s) ==
    [add_task(S, s, "timer") EXCEPT !.ret.op = "add_timer_task"]

AddTimerTask(s) ==
    /\ issued < quota
    /\ "timer" \notin Range(tasks_to_start[s])
    /\ Apply(add_timer_task(Cur, s))
    /\ issued' = issued + 1
    /\ UNCHANGED <<quota, beat>>

Next ==
    \/ \E s \in Services : Start(s)
    \/ \E s \in Services : MaybeStart(s)
    \/ \E s \in Services : Stop(s)
    \/ \E s \in Services : Restart(s)
    \/ \E s \in Services, r \in Reasons : Crash(s, r)
    \/ \E s \in Services, c \in Services : AddDependency(s, c)
    \/ \E s \in Services, k \in TaskKinds : AddTask(s, k)
    \/ \E i \in FrameIds : Resume(i)
    \/ \E r \in tstat : TimerWake(r.id)
    \/ \E r \in tstat : TaskCancelled(r.id)
    \/ \E r \in tstat : TaskFail(r.id)
    \/ \E r \in tstat, n \in FlakyAt : TaskReturn(r.id, n)

Spec == Init /\ [][Next]_vars

NextThread ==
    \/ Next
    \/ \E s \in Services, r \in Reasons : CrashFromChild(s, r)
    \/ \E s \in Services : StopFromChild(s)
    \/ \E x \in threads : RunTasks(x)
    \/ \E x \in threads : ThreadEnd(x)

\* The services are ServiceThreads.
SpecThread == InitThread /\ [][NextThread]_vars

\* p.add_dependency(c) was called right after the construction.
Family ==
    /\ Fresh
    /\ level = [s \in Services |-> IF s = "c" THEN 1 ELSE 0]
    /\ children = [s \in Services |-> IF s = "p" THEN <<"c">> ELSE <<>>]
    /\ klass = [s \in Services |-> "Service"]
    /\ quota = MaxFamilyCalls

InitFamily == Family /\ beat = "off"

NextFamily ==
    \/ \E s \in Services : Start(s)
    \/ \E s \in Services : Stop(s)
    \/ \E s \in Services, r \in Reasons : Crash(s, r)
    \/ \E i \in FrameIds : Resume(i)
    \/ \E r \in tstat : TimerWake(r.id)
    \/ \E r \in tstat : TaskCancelled(r.id)

\* A parent and its child, started, stopped and crashed.
SpecFamily == InitFamily /\ [][NextFamily]_vars

\* One service with scoped resources.
InitRes ==
    /\ Fresh
    /\ NoChildren
    /\ klass = [s \in Services |-> "Service"]
    /\ quota = MaxResCalls
    /\ beat = "off"

NextRes ==
    \/ \E r \in Res : AddContext("c", r)
    \/ \E r \in Res : AddAsyncContext("c", r)
    \/ Start("c")
    \/ Stop("c")
    \/ \E i \in FrameIds : Resume(i)
    \/ \E r \in tstat : TimerWake(r.id)
    \/ \E r \in tstat : TaskCancelled(r.id)

\* A service whose resources are registered, acquired and released.
SpecRes == InitRes /\ [][NextRes]_vars

\* One service whose resources are registered while it is RUNNING, each
\* call made after the call before it has returned.
InitLate ==
    /\ Fresh
    /\ NoChildren
    /\ klass = [s \in Services |-> "Service"]
    /\ quota = MaxLateCalls
    /\ beat = "off"

NextLate ==
    \/ Quiet /\ Start("c")
    \/ Quiet /\ Stop("c")
    \/ Quiet /\ Restart("c")
    \/ Quiet /\ state["c"] = "RUNNING" /\ \E r \in Res \ BadRes : AddContext("c", r)
    \/ Quiet /\ state["c"] = "RUNNING" /\ \E r \in Res \ BadRes : AddAsyncContext("c", r)
    \/ \E i \in FrameIds : Resume(i)
    \/ \E r \in tstat : TimerWake(r.id)
    \/ \E r \in tstat : TaskCancelled(r.id)

SpecLate == InitLate /\ [][NextLate]_vars

\* One service, each call made after the call before it has returned.
InitCycles ==
    /\ Fresh
    /\ NoChildren
    /\ klass = [s \in Services |-> "Service"]
    /\ quota = MaxCycleCalls
    /\ beat = "off"

NextCycles ==
    \/ (\A i \in FrameIds : frames[i].op = "none") /\ Start("c")
    \/ (\A i \in FrameIds : frames[i].op = "none") /\ Stop("c")
    \/ (\A i \in FrameIds : frames[i].op = "none") /\ Restart("c")
    \/ \E i \in FrameIds : Resume(i)
    \/ \E r \in tstat : TimerWake(r.id)
    \/ \E r \in tstat : TaskCancelled(r.id)

\* Successive start, stop and restart calls on one service.
SpecCycles == InitCycles /\ [][NextCycles]_vars

\* One service: tasks and timers are registered, the service is started
\* and stopped, in any interleaving.
InitTasks ==
    /\ Fresh
    /\ NoChildren
    /\ klass = [s \in Services |-> "Service"]
    /\ quota = MaxTaskCalls
    /\ beat = "off"

NextTasks ==
    \/ Start("c")
    \/ Stop("c")
    \/ \E k \in TaskKinds : AddTask("c", k)
    \/ AddTimerTask("c")
    \/ \E i \in FrameIds : Resume(i)
    \/ \E r \in tstat : TimerWake(r.id)
    \/ \E r \in tstat : TaskCancelled(r.id)
    \/ \E r \in tstat : TaskFail(r.id)
    \/ \E r \in tstat, n \in FlakyAt : TaskReturn(r.id, n)

SpecTasks == InitTasks /\ [][NextTasks]_vars

\* A parent and a service handed to it and taken from it at run time, each
\* call made after the call before it has returned.
InitRuntime ==
    /\ Fresh
    /\ NoChildren
    /\ klass = [s \in Services |-> "Service"]
    /\ quota = MaxRuntimeCalls
    /\ beat = "off"

NextRuntime ==
    \/ Quiet /\ Start("p")
    \/ Quiet /\ Stop("p")
    \/ Quiet /\ Restart("p")
    \/ Quiet /\ \E r \in Reasons : Crash("p", r)
    \/ Quiet /\ AddRuntimeDependency("p", "c")
    \/ Quiet /\ RemoveDependency("p", "c")
    \/ \E i \in FrameIds : Resume(i)
    \/ \E r \in tstat : TimerWake(r.id)
    \/ \E r \in tstat : TaskCancelled(r.id)

SpecRuntime == InitRuntime /\ [][NextRuntime]_vars

\* One service with no task: calls of start, stop, crash and
\* wait_until_stopped in any interleaving.
InitWait ==
    /\ Fresh
    /\ NoChildren
    /\ klass = [s \in Services |-> "Service"]
    /\ quota = MaxWaitCalls
    /\ beat = "off"

NextWait ==
    \/ Start("c")
    \/ Stop("c")
    \/ \E r \in Reasons : Crash("c", r)
    \/ WaitUntilStopped("c")
    \/ \E i \in FrameIds : Resume(i)

SpecWait == InitWait /\ [][NextWait]_vars

\* p.add_dependency(c), p.add_async_context(r1), p.add_context(r2) and
\* p.add_task(sleeper) were called right after the construction.
Equipped ==
    /\ state = [s \in Services |-> "INIT"]
    /\ stopped = [s \in Services |-> FALSE]
    /\ should_stop = [s \in Services |-> FALSE]
    /\ crash_reason = [s \in Services |-> "None"]
    /\ start_count = [s \in Services |-> 0]
    /\ level = [s \in Services |-> IF s = "c" THEN 1 ELSE 0]
    /\ children = [s \in Services |-> IF s = "p" THEN <<"c">> ELSE <<>>]
    /\ tasks_to_start = [s \in Services |-> IF s = "p" THEN <<"sleeper">> ELSE <<>>]
    /\ tasks = [s \in Services |-> {}]
    /\ tstat = {}
    /\ tgen = [s \in Services |-> 0]
    /\ hooks = [s \in Services |-> NoHooks]
    /\ context_managers = [s \in Services |-> IF s = "p" THEN <<"r2">> ELSE <<>>]
    /\ async_context_managers = [s \in Services |-> IF s = "p" THEN <<"r1">> ELSE <<>>]
    /\ exit_stack = [s \in Services |-> NoStack]
    /\ async_exit_stack = [s \in Services |-> 0]
    /\ astacks = {}
    /\ nstk = 0
    /\ rlog = <<>>
    /\ thread_data = [s \in Services |-> 0]
    /\ thread_loop = [s \in Services |-> 0]
    /\ threads = {}
    /\ nthr = 0
    /\ frames = [i \in FrameIds |-> NoFrame]
    /\ ret = [op |-> "none", svc |-> "-", val |-> "-"]
    /\ issued = 0
    /\ klass = [s \in Services |-> "Service"]
    /\ beat = "off"

InitOrder == Equipped /\ quota = MaxOrderCalls

NextOrder ==
    \/ \E s \in Services : Start(s)
    \/ \E s \in Services : Stop(s)
    \/ \E i \in FrameIds : Resume(i)
    \/ \E r \in tstat : TimerWake(r.id)
    \/ \E r \in tstat : TaskCancelled(r.id)

\* A parent with a child, resources and a task, started and stopped.
SpecOrder == InitOrder /\ [][NextOrder]_vars

\* p.add_dependency(c) was called right after the construction, and on c
\* add_context(r1) and add_context(rbad), or add_async_context(rbad), or
\* all three: the start of c fails in an acquisition, the start of p in the
\* start of its child.
InitFail ==
    /\ state = [s \in Services |-> "INIT"]
    /\ stopped = [s \in Services |-> FALSE]
    /\ should_stop = [s \in Services |-> FALSE]
    /\ crash_reason = [s \in Services |-> "None"]
    /\ start_count = [s \in Services |-> 0]
    /\ level = [s \in Services |-> IF s = "c" THEN 1 ELSE 0]
    /\ children = [s \in Services |-> IF s = "p" THEN <<"c">> ELSE <<>>]
    /\ tasks_to_start = [s \in Services |-> <<>>]
    /\ tasks = [s \in Services |-> {}]
    /\ tstat = {}
    /\ tgen = [s \in Services |-> 0]
    /\ hooks = [s \in Services |-> NoHooks]
    /\ \E cm \in {<<>>, <<"r1", "rbad">>}, acm \in {<<>>, <<"rbad">>} :
           /\ cm \o acm # <<>>
           /\ context_managers = [s \in Services |-> IF s = "c" THEN cm ELSE <<>>]
           /\ async_context_managers = [s \in Services |-> IF s = "c" THEN acm ELSE <<>>]
    /\ exit_stack = [s \in Services |-> NoStack]
    /\ async_exit_stack = [s \in Services |-> 0]
    /\ astacks = {}
    /\ nstk = 0
    /\ rlog = <<>>
    /\ thread_data = [s \in Services |-> 0]
    /\ thread_loop = [s \in Services |-> 0]
    /\ threads = {}
    /\ nthr = 0
    /\ frames = [i \in FrameIds |-> NoFrame]
    /\ ret = [op |-> "none", svc |-> "-", val |-> "-"]
    /\ issued = 0
    /\ klass = [s \in Services |-> "Service"]
    /\ quota = MaxFailCalls
    /\ beat = "off"

\* The calls are made one at a time, each after the call before it has
\* returned or raised.
NextFail ==
    \/ Quiet /\ \E s \in Services : Start(s)
    \/ Quiet /\ \E s \in Services : MaybeStart(s)
    \/ Quiet /\ \E s \in Services : Stop(s)
    \/ Quiet /\ \E s \in Services : Restart(s)
    \/ Quiet /\ \E s \in Services, r \in Reasons : Crash(s, r)
    \/ \E i \in FrameIds : Resume(i)
    \/ \E r \in tstat : TimerWake(r.id)
    \/ \E r \in tstat : TaskCancelled(r.id)

\* A family whose starts fail part-way.
SpecFail == InitFail /\ [][NextFail]_vars

\* No start of service s is in progress.
NoStart(s) ==
    \A i \in FrameIds :
        ~(frames[i].svc = s /\ frames[i].op \in {"start", "maybe_start"})

\* stop() is called on the service when no call is in progress, start()
\* when no start is in progress and a stop in progress, if any, is
\* suspended in on_shutdown.
NextEarly ==
    \/ /\ NoStart("c")
       /\ \A i \in FrameIds : frames[i].op = "stop" => frames[i].pc = "sd_reset"
       /\ Start("c")
    \/ Quiet /\ Stop("c")
    \/ \E i \in FrameIds : Resume(i)
    \/ \E r \in tstat : TimerWake(r.id)
    \/ \E r \in tstat : TaskCancelled(r.id)

\* A service started again before its stop has returned.
SpecEarly == InitRes /\ [][NextEarly]_vars

InitCrashed == Equipped /\ quota = MaxCrashedCalls

\* The equipped parent is started, crashed, stopped and restarted, one
\* call at a time.
NextCrashed ==
    \/ Quiet /\ Start("p")
    \/ Quiet /\ \E r \in Reasons : Crash("p", r)
    \/ Quiet /\ Stop("p")
    \/ Quiet /\ Restart("p")
    \/ \E i \in FrameIds : Resume(i)
    \/ \E r \in tstat : TimerWake(r.id)
    \/ \E r \in tstat : TaskCancelled(r.id)

\* A service that crashes while it holds resources.
SpecCrashed == InitCrashed /\ [][NextCrashed]_vars

InitTwice == Equipped /\ quota = MaxTwiceCalls

\* The parent is started once; once that start has returned, stop() is
\* called on it, also while an earlier stop() is in progress.
NextTwice ==
    \/ state["p"] = "INIT" /\ Quiet /\ Start("p")
    \/ state["p"] \notin {"INIT", "STARTING"} /\ NoStart("p") /\ Stop("p")
    \/ \E i \in FrameIds : Resume(i)
    \/ \E r \in tstat : TimerWake(r.id)
    \/ \E r \in tstat : TaskCancelled(r.id)

\* One run of an equipped parent, stopped more than once.
SpecTwice == InitTwice /\ [][NextTwice]_vars

\* What the event loop does by itself: it resumes the coroutines that can
\* go on, ends the sleep of the timers and delivers the cancellations.
LoopRuns ==
    \/ \E i \in FrameIds : Resume(i)
    \/ \E r \in tstat : TimerWake(r.id)
    \/ \E r \in tstat : TaskCancelled(r.id)

\* The calls of the supervision scenario: the parent is started once, it
\* is stopped while it starts or runs, the running child of the running
\* parent crashes.
NextWatch ==
    \/ state["p"] = "INIT" /\ Start("p")
    \/ state["p"] \in {"STARTING", "RUNNING"} /\ Stop("p")
    \/ /\ state["p"] = "RUNNING" /\ state["c"] = "RUNNING"
       /\ "c" \in Range(children["p"])
       /\ \E r \in Reasons : Crash("c", r)
    \/ LoopRuns

InitWatch == Family /\ beat = "tick"

\* The loop has something to do: a coroutine that can go on, a cancelled
\* task to end, or a timer whose wake-up changes something.
LoopReady ==
    \/ \E i \in FrameIds : frames[i].op # "none" /\ Ready(i)
    \/ \E r \in tstat : r.st = "cancel"
    \/ \E r \in tstat :
           /\ r = [id |-> r.id, st |-> "run", fails |-> 0]
           /\ r.id[2] = 0
           /\ \A j \in FrameIds : ~(/\ frames[j].op = "crash"
                                    /\ frames[j].svc = r.id[1]
                                    /\ frames[j].wait = "pending")
           /\ timer_wake(Cur, r.id) # Cur

\* A turn of the loop: the steps of LoopRuns are those that flip beat.
LoopTurn == LoopReady /\ beat' = Flip(beat)

\* The family under a loop that keeps running: the hooks return, the
\* timers fire, no ready coroutine is left waiting for ever.
SpecWatch == InitWatch /\ [][NextWatch]_vars /\ WF_beat(LoopTurn)

TypeOK ==
    /\ \A s \in Services : state[s] \in ServiceState
    /\ \A i \in FrameIds : frames[i].wait # "go"

\* -------------------------------------------------------------- claims

\* The fields of the services (everything but the frames, the result of the
\* last call and the count of calls).
svc_vars == <<state, stopped, should_stop, crash_reason, start_count, level,
              children, tasks_to_start, tasks, tstat, tgen, hooks,
              context_managers, async_context_managers, exit_stack,
              async_exit_stack, astacks, nstk, rlog,
              thread_data, thread_loop, threads, nthr>>

UnfinishedNow == {r.id : r \in tstat}

\* Frame i returns or raises in this step.
Leaves(i) == frames[i].op # "none" /\ frames'[i].op = "none"

\* C1: in every reachable state of every service, stopped is set if and
\* only if the state is SHUTDOWN or CRASHED.
C1_StoppedIffTerminal ==
    \A s \in Services : stopped[s] <=> state[s] \in {"SHUTDOWN", "CRASHED"}

\* The frames are as before, the bookkeeping of overlaps aside.
FramesSame ==
    \A i \in FrameIds :
        [frames'[i] EXCEPT !.solo = FALSE] = [frames[i] EXCEPT !.solo = FALSE]

Result(op, s, val) == [op |-> op, svc |-> s, val |-> val]

\* The start() run by frame i returns normally in this step.
StartReturns(i) == frames[i].pc = "st_count" /\ Leaves(i)

\* C2, as stated, on the starts that no other call overlaps: when start()
\* returns, the service and every child in its children list are RUNNING.
C2_StartLeavesChildrenRunning ==
    [][\A i \in FrameIds :
         (StartReturns(i) /\ frames[i].solo) =>
             LET s == frames[i].svc
             IN  /\ state'[s] = "RUNNING"
                 /\ \A c \in Range(children'[s]) : state'[c] = "RUNNING"]_vars

LegalSteps ==
    {<<"INIT", "STARTING">>, <<"SHUTDOWN", "STARTING">>, <<"STARTING", "RUNNING">>,
     <<"RUNNING", "STOPPING">>, <<"STOPPING", "SHUTDOWN">>, <<"RUNNING", "CRASHED">>,
     <<"STOPPING", "CRASHED">>, <<"INIT", "STOPPING">>, <<"CRASHED", "STOPPING">>,
     <<"SHUTDOWN", "STOPPING">>}

\* C3: under any interleaving of calls, every change of a service's state
\* is one of the legal steps of the lifecycle.
C3_LegalSteps ==
    [][\A s \in Services :
         state'[s] # state[s] => <<state[s], state'[s]>> \in LegalSteps]_vars

\* C4: start() on a service that is not INIT or SHUTDOWN fails with
\* AlreadyRunning and changes no field of any service, whether the
\* environment calls it or restart() does.
C4_StartRejected ==
    [][/\ \A s \in Services :
            (Start(s) /\ state[s] \notin STATES_INACTIVE) =>
                /\ ret' = Result("start", s, "AlreadyRunning")
                /\ UNCHANGED svc_vars
                /\ FramesSame
       /\ \A i \in FrameIds :
            (/\ Resume(i)
             /\ frames[i].pc = "start"
             /\ state[frames[i].svc] \notin STATES_INACTIVE) =>
                /\ Leaves(i)
                /\ UNCHANGED svc_vars
                /\ frames[i].ext => ret'.val = "AlreadyRunning"]_vars

\* start() was refused on the CRASHED service p.
W_C4 ==
    /\ ret = Result("start", "p", "AlreadyRunning")
    /\ state["p"] = "CRASHED"

\* C5: maybe_start() on a service in INIT begins a start and returns true
\* only from the last step of that start; in any other state it returns
\* false and changes no field of any service.
C5_MaybeStart ==
    [][/\ \A s \in Services :
            MaybeStart(s) =>
                IF state[s] = "INIT"
                THEN /\ state'[s] = "STARTING"
                     /\ \E i \in FrameIds :
                            /\ frames[i].op = "none"
                            /\ frames'[i].op = "maybe_start"
                            /\ frames'[i].svc = s
                ELSE /\ ret' = Result("maybe_start", s, "false")
                     /\ UNCHANGED svc_vars
                     /\ FramesSame
       /\ \A i \in FrameIds :
            (Resume(i) /\ frames[i].op = "maybe_start") =>
                LET s == frames[i].svc
                IN  IF frames[i].wait = "pending"
                    THEN IF state[s] = "INIT"
                         THEN state'[s] = "STARTING" /\ ~Leaves(i)
                         ELSE Leaves(i) /\ UNCHANGED svc_vars
                    ELSE Leaves(i) =>
                             /\ frames[i].pc = "st_count"
                             /\ start_count'[s] = start_count[s] + 1
                             /\ frames[i].ext => ret' = Result("maybe_start", s, "true")]_vars

\* maybe_start() returned false on p, which is in SHUTDOWN after a stop.
W_C5 ==
    /\ ret = Result("maybe_start", "p", "false")
    /\ state["p"] = "SHUTDOWN"
    /\ hooks["p"].start = 0

\* C6: crash() on a service that is not RUNNING or STOPPING fails with
\* NotRunning and changes no field of any service, whether it is called on
\* the environment's loop, on the loop of the service's thread, or by a
\* task the service scheduled.
C6_CrashRejected ==
    [][/\ \A s \in Services, r \in Reasons :
            ((Crash(s, r) \/ CrashFromChild(s, r)) /\ state[s] \notin STATES_ACTIVE) =>
                /\ ret' = Result("crash", s, "NotRunning")
                /\ UNCHANGED svc_vars
                /\ FramesSame
       /\ \A i \in FrameIds :
            (/\ Resume(i)
             /\ frames[i].pc \in {"crash", "crash_super"}
             /\ state[frames[i].svc] \notin STATES_ACTIVE) =>
                /\ Leaves(i)
                /\ UNCHANGED svc_vars
                /\ UNCHANGED ret]_vars

\* C7: restart() on a service in INIT, STARTING or STOPPING fails with
\* NotRunning and changes no field of any service: no state change, no hook.
C7_RestartRejected ==
    [][\A s \in Services :
         (Restart(s) /\ state[s] \notin STATES_RESTARTABLE) =>
             /\ ret' = Result("restart", s, "NotRunning")
             /\ UNCHANGED svc_vars
             /\ FramesSame]_vars

\* restart() was refused on p while a start of p is suspended.
W_C7 ==
    /\ ret = Result("restart", "p", "NotRunning")
    /\ state["p"] = "STARTING"

\* C8: stop() on a service whose stopped event is set returns without an
\* error and changes no field of any service: a SHUTDOWN service stays
\* SHUTDOWN, a CRASHED one stays CRASHED with its crash_reason, no hook fires.
C8_StopIsNoOp ==
    [][/\ \A s \in Services :
            (Stop(s) /\ stopped[s]) =>
                /\ ret' = Result("stop", s, "ok")
                /\ UNCHANGED svc_vars
                /\ FramesSame
       /\ \A i \in FrameIds :
            (Resume(i) /\ frames[i].pc = "stop" /\ stopped[frames[i].svc]) =>
                /\ Leaves(i)
                /\ UNCHANGED svc_vars]_vars

\* stop() has returned on p, which crash() had left CRASHED.
W_C8 ==
    /\ Quiet
    /\ ret = Result("stop", "p", "ok")
    /\ state["p"] = "CRASHED"
    /\ crash_reason["p"] = "E1"
    /\ hooks["p"].stop = 0

\* C9: in every reachable state of every service, crash_reason is set if
\* and only if the state is CRASHED.
C9_ReasonIffCrashed ==
    \A s \in Services : (crash_reason[s] # "None") <=> (state[s] = "CRASHED")

\* C10: when stop() returns, every task that was in the service's live
\* tasks and unfinished when the stop began has finished.
C10_StopLeavesNoTask ==
    [][/\ \A s \in Services :
            (Stop(s) /\ ret' = Result("stop", s, "ok")) =>
                tasks[s] \cap UnfinishedNow' = {}
       /\ \A i \in FrameIds :
            (Leaves(i) /\ frames[i].op = "stop") =>
                frames[i].t0 \cap UnfinishedNow' = {}]_vars

\* C11: a stop() called on a RUNNING service, and overlapped by no other
\* call, ends with the service in SHUTDOWN and with every task that was
\* unfinished when it began finished.
C11_StopEndsInShutdown ==
    [][/\ \A s \in Services :
            (Stop(s) /\ state[s] = "RUNNING" /\ ret' = Result("stop", s, "ok")) =>
                /\ state'[s] = "SHUTDOWN"
                /\ tasks[s] \cap UnfinishedNow' = {}
       /\ \A i \in FrameIds :
            (/\ Leaves(i)
             /\ frames[i].op = "stop"
             /\ frames[i].s0 = "RUNNING"
             /\ frames[i].solo) =>
                /\ state'[frames[i].svc] = "SHUTDOWN"
                /\ frames[i].t0 \cap UnfinishedNow' = {}]_vars

\* C12: when a stop() of a parent that ran the shutdown, overlapped by no
\* other call, returns, every child that was RUNNING when it began is in
\* SHUTDOWN and its on_stop has fired exactly once since.
C12_ParentStopStopsChildren ==
    [][\A i \in FrameIds :
         (Leaves(i) /\ frames[i].op = "stop" /\ frames[i].solo) =>
             \A x \in frames[i].ch0 :
                 x[2] = "RUNNING" =>
                     /\ state'[x[1]] = "SHUTDOWN"
                     /\ hooks'[x[1]].stop = frames[i].h0[x[1]].stop + 1]_vars

\* C13: a registered task whose body always raises is invoked exactly 10
\* times and then ends, having scheduled crash(last error) on its service;
\* when that crash, having found the service RUNNING or STOPPING, returns,
\* the service is CRASHED with the last error as crash_reason.  A body that
\* returns on some attempt is invoked no further and schedules no crash.
C13_TenAttemptsThenCrash ==
    [][/\ \A r \in tstat :
            TaskFail(r.id) =>
                /\ hooks'[r.id[1]].task1_run = hooks[r.id[1]].task1_run + 10
                /\ r.id \notin UnfinishedNow'
                /\ \E j \in FrameIds :
                       /\ frames[j].op = "none"
                       /\ frames'[j].op = "crash"
                       /\ frames'[j].wait = "pending"
                       /\ frames'[j].svc = r.id[1]
                       /\ frames'[j].reason = "TaskError"
       /\ \A r \in tstat, n \in FlakyAt :
            TaskReturn(r.id, n) =>
                /\ hooks'[r.id[1]].task1_run = hooks[r.id[1]].task1_run + n + 1
                /\ r.id \notin UnfinishedNow'
                /\ frames' = frames
       /\ \A i \in FrameIds :
            (/\ Leaves(i)
             /\ frames[i].op = "crash"
             /\ frames[i].reason = "TaskError"
             /\ frames[i].s0 \in STATES_ACTIVE) =>
                /\ state'[frames[i].svc] = "CRASHED"
                /\ crash_reason'[frames[i].svc] = "TaskError"]_vars

\* A service crashed by its failing task after the 10 attempts of one run.
W_C13 ==
    \E s \in Services :
        /\ state[s] = "CRASHED"
        /\ crash_reason[s] = "TaskError"
        /\ hooks[s].task1_run = 10

\* C14: whenever the child c of the RUNNING parent p is CRASHED, the parent
\* does not stay RUNNING for ever: its child-watch task schedules its crash.
C14_WatcherCrashesParent ==
    (state["p"] = "RUNNING" /\ "c" \in Range(children["p"]) /\ state["c"] = "CRASHED")
        ~> (state["p"] # "RUNNING")

Acquired(s, q) == [k \in 1..Len(q) |-> <<"acquire", s, q[k]>>]

Released(s, q) == [k \in 1..Len(q) |-> <<"release", s, q[Len(q) + 1 - k]>>]

\* C16: a start() overlapped by no other call that succeeds has acquired
\* the registered resources of each stack in registration order; a stop()
\* overlapped by no other call that ran the shutdown has released the
\* resources each stack held in reverse order, each once, and has cleared
\* the stacks; a stop() on a stopped service releases nothing.
C16_ReleaseInReverse ==
    [][/\ \A i \in FrameIds :
            (Leaves(i) /\ frames[i].solo) =>
                LET s == frames[i].svc
                    r0 == frames[i].r0
                    own == OwnLog(rlog', s)
                IN  /\ (frames[i].op = "start" /\ ret' = Result("start", s, "ok")) =>
                            own = r0.log \o Acquired(s, r0.acm) \o Acquired(s, r0.cm)
                    /\ frames[i].op = "stop" =>
                            /\ own = r0.log \o Released(s, r0.aheld) \o Released(s, r0.held)
                            /\ exit_stack'[s] = NoStack
                            /\ async_exit_stack'[s] = 0
       /\ \A s \in Services : (Stop(s) /\ stopped[s]) => rlog' = rlog]_vars

\* Two resources of one stack after a start/stop cycle.
W_C16 ==
    /\ Quiet
    /\ state["c"] = "SHUTDOWN"
    /\ ret = Result("stop", "c", "ok")
    /\ issued = 4
    /\ rlog = <<<<"acquire", "c", "r1">>, <<"acquire", "c", "r2">>,
                <<"release", "c", "r2">>, <<"release", "c", "r1">>>>
    /\ exit_stack["c"] = NoStack

\* C17: when a start() fails because the acquisition of a resource failed,
\* the resources it had acquired have been released: the stacks of the
\* service hold nothing.
C17_FailedStartReleases ==
    [][\A i \in FrameIds :
         (/\ Leaves(i)
          /\ frames[i].op = "start"
          /\ ret' = Result("start", frames[i].svc, "AcquireError")) =>
             LET s == frames[i].svc
             IN  /\ exit_stack'[s].items = <<>>
                 /\ \A a \in astacks' : a.items = <<>>]_vars

\* C18: when a restart() overlapped by no other call returns, the service
\* has the children it had when the restart began, its registered tasks
\* run again, each once, together with the child-watch task, none of the
\* tasks of before the restart is among its tasks, and should_stop and
\* crash_reason are reset.
C18_RestartPreserves ==
    [][\A i \in FrameIds :
         (/\ Leaves(i)
          /\ frames[i].op = "restart"
          /\ frames[i].solo
          /\ ret' = Result("restart", frames[i].svc, "ok")) =>
             LET s == frames[i].svc
             IN  /\ Range(children'[s]) = {x[1] : x \in frames[i].ch0}
                 /\ tasks'[s] = {<<s, n, tgen'[s]>> : n \in 0..Len(tasks_to_start'[s])}
                 /\ tasks'[s] \cap frames[i].t0 = {}
                 /\ ~should_stop'[s]
                 /\ crash_reason'[s] = "None"]_vars

\* C19: over successive start(), stop() and restart() calls on one service,
\* a start() from SHUTDOWN succeeds and leaves the service RUNNING, a
\* stop() leaves it in SHUTDOWN, between the calls start_count is the
\* number of starts that went through (the count of on_started), and
\* on_first_start has fired once if the service was ever started, never
\* twice.
C19_Cycles ==
    [][/\ \A i \in FrameIds :
            Leaves(i) =>
                LET s == frames[i].svc
                IN  /\ (frames[i].op = "start" /\ frames[i].s0 = "SHUTDOWN") =>
                            /\ ret' = Result("start", s, "ok")
                            /\ state'[s] = "RUNNING"
                    /\ frames[i].op = "stop" => state'[s] = "SHUTDOWN"
       /\ \A s \in Services :
            /\ (Stop(s) /\ ret' = Result("stop", s, "ok")) => state'[s] = "SHUTDOWN"
            /\ Quiet' => start_count'[s] = hooks'[s].started
            /\ hooks'[s].first_start <= 1
            /\ hooks'[s].start > 0 => hooks'[s].first_start = 1]_vars

\* Three starts and two stops later.
W_C19 ==
    /\ Quiet
    /\ state["c"] = "RUNNING"
    /\ start_count["c"] = 3
    /\ hooks["c"].stop = 2
    /\ hooks["c"].first_start = 1

\* C20: in every state of a start() overlapped by no other call: on_started
\* has fired only if the state is RUNNING; the state is RUNNING only if the
\* tasks are spawned; a task is spawned only if every registered resource
\* is acquired, in order, and every child that was in INIT has completed
\* its start; a resource is acquired only if those children have completed
\* their start; a child is touched only if on_start has fired; and on_start
\* has fired only if on_first_start has, on the first start.
C20_StartOrder ==
    \A i \in FrameIds :
        (frames[i].op \in {"start", "maybe_start"} /\ frames[i].solo) =>
            LET s == frames[i].svc
                h0 == frames[i].h0
                r0 == frames[i].r0
                own == OwnLog(rlog, s)
                kidsStarted ==
                    \A x \in frames[i].ch0 :
                        x[2] = "INIT" =>
                            /\ state[x[1]] = "RUNNING"
                            /\ start_count[x[1]] = 1
                kidsTouched ==
                    \E x \in frames[i].ch0 : hooks[x[1]] # h0[x[1]]
                acquiredAll ==
                    own = r0.log \o Acquired(s, r0.acm) \o Acquired(s, r0.cm)
                acquiredAny == own # r0.log
                spawned == (tasks[s] \cap UnfinishedNow) \ frames[i].t0 # {}
            IN  /\ hooks[s].started > h0[s].started => state[s] = "RUNNING"
                /\ state[s] = "RUNNING" => spawned
                /\ spawned => acquiredAll /\ kidsStarted
                /\ acquiredAny => kidsStarted
                /\ (kidsTouched \/ acquiredAny \/ spawned) =>
                       hooks[s].start = h0[s].start + 1
                /\ hooks[s].start > h0[s].start =>
                       hooks[s].first_start =
                           h0[s].first_start + (IF start_count[s] = 0 THEN 1 ELSE 0)

\* The start of the parent, overlapped by no call, in its on_started, with
\* its child started, its two resources acquired and its tasks spawned.
W_C20 ==
    \E i \in FrameIds :
        /\ frames[i].op = "start" /\ frames[i].svc = "p" /\ frames[i].solo
        /\ frames[i].ch0 = {<<"c", "INIT">>}
        /\ hooks["p"].started = 1
        /\ state["c"] = "RUNNING"
        /\ Len(rlog) = 2
        /\ tasks["p"] \cap UnfinishedNow # {}

\* C21: in every state of a stop() that runs the shutdown, overlapped by no
\* other call: on_shutdown has fired only if the state is SHUTDOWN; the
\* state is SHUTDOWN only if stopped is set; stopped is set only if the
\* tasks that were live have finished; a task is cancelled only if every
\* held resource is released, in reverse order; a resource is released
\* only if the stop of every child has returned; a child is touched only
\* if should_stop is set; should_stop is set only if on_stop has fired;
\* on_stop has fired only if the state has left its value of before.
C21_StopOrder ==
    \A i \in FrameIds :
        (frames[i].op = "stop" /\ frames[i].solo /\ frames[i].s0 # "-") =>
            LET s == frames[i].svc
                h0 == frames[i].h0
                r0 == frames[i].r0
                own == OwnLog(rlog, s)
                kidsCalled ==
                    \E j \in FrameIds : frames[j].op # "none" /\ frames[j].caller = i
                kidsTouched ==
                    \/ kidsCalled
                    \/ \E x \in frames[i].ch0 : hooks[x[1]] # h0[x[1]]
                kidsStopped ==
                    /\ ~kidsCalled
                    /\ \A x \in frames[i].ch0 : stopped[x[1]]
                releasedAll ==
                    own = r0.log \o Released(s, r0.aheld) \o Released(s, r0.held)
                releasedAny == own # r0.log
                cancelledAny ==
                    \E r \in tstat : r.id \in frames[i].t0 /\ r.st = "cancel"
            IN  /\ hooks[s].shutdown > h0[s].shutdown => state[s] = "SHUTDOWN"
                /\ state[s] = "SHUTDOWN" => stopped[s]
                /\ stopped[s] =>
                       /\ frames[i].t0 \cap UnfinishedNow = {}
                       /\ releasedAll
                /\ cancelledAny => releasedAll
                /\ releasedAny => kidsStopped
                /\ kidsTouched => should_stop[s]
                /\ should_stop[s] => hooks[s].stop = h0[s].stop + 1
                /\ hooks[s].stop > h0[s].stop => state[s] \in {"STOPPING", "SHUTDOWN"}
                /\ state[s] \in {"STOPPING", "SHUTDOWN"}

\* The stop of the running parent, overlapped by no call, in its
\* on_shutdown, with its child stopped, its two resources released and its
\* tasks finished.
W_C21 ==
    \E i \in FrameIds :
        /\ frames[i].op = "stop" /\ frames[i].svc = "p" /\ frames[i].solo
        /\ frames[i].s0 = "RUNNING"
        /\ frames[i].ch0 = {<<"c", "RUNNING">>}
        /\ frames[i].t0 # {}
        /\ hooks["p"].shutdown = 1
        /\ state["c"] = "SHUTDOWN"
        /\ Len(rlog) = 4

\* C22: wait_until_stopped() returns at once when stopped is set, fails
\* with NotRunning when the service is INIT with stopped clear, and in
\* every other state with stopped clear it waits; the call that waits
\* returns in the step that sets stopped.
C22_WaitUntilStopped ==
    [][/\ \A s \in Services :
            WaitUntilStopped(s) =>
                IF stopped[s]
                THEN ret' = Result("wait_until_stopped", s, "ok") /\ FramesSame
                ELSE IF state[s] = "INIT"
                THEN ret' = Result("wait_until_stopped", s, "NotRunning") /\ FramesSame
                ELSE /\ ret' = ret
                     /\ \E j \in FrameIds :
                            /\ frames[j].op = "none"
                            /\ frames'[j].op = "wait_until_stopped"
                            /\ frames'[j].wait = "stopped"
       /\ \A j \in FrameIds :
            (frames[j].wait = "stopped" /\ ~stopped[frames[j].svc]
                /\ stopped'[frames[j].svc]) =>
                frames'[j].wait = "turn"]_vars

\* The tasks of service s that are created in this step.
Spawned(s) == tasks'[s] \ tasks[s]

\* C23: add_task and add_timer_task append to tasks_to_start when the
\* service is INIT; in every other state they fail with AlreadyRunning and
\* change no field of any service; tasks_to_start changes in no other step
\* of a service that has left INIT, and the tasks a start creates are the
\* child-watch timer and one task per registered entry.
C23_RegisterOnlyInInit ==
    [][\A s \in Services :
         /\ \A k \in TaskKinds :
                AddTask(s, k) =>
                    IF state[s] = "INIT"
                    THEN /\ tasks_to_start'[s] = Append(tasks_to_start[s], k)
                         /\ ret' = Result("add_task", s, "ok")
                    ELSE /\ ret' = Result("add_task", s, "AlreadyRunning")
                         /\ UNCHANGED svc_vars
                         /\ FramesSame
         /\ AddTimerTask(s) =>
                IF state[s] = "INIT"
                THEN /\ tasks_to_start'[s] = Append(tasks_to_start[s], "timer")
                     /\ ret' = Result("add_timer_task", s, "ok")
                ELSE /\ ret' = Result("add_timer_task", s, "AlreadyRunning")
                     /\ UNCHANGED svc_vars
                     /\ FramesSame
         /\ state[s] # "INIT" => tasks_to_start'[s] = tasks_to_start[s]
         /\ state'[s] = "INIT" => state[s] = "INIT"
         /\ Spawned(s) # {} =>
                /\ state[s] # "INIT"
                /\ {t[2] : t \in Spawned(s)} = 0..Len(tasks_to_start[s])]_vars

\* The service with one registered task was started and stopped; add_task,
\* the last call to return, was refused in SHUTDOWN.
W_C23 ==
    /\ ret = Result("add_task", "c", "AlreadyRunning")
    /\ Quiet
    /\ state["c"] = "SHUTDOWN"
    /\ start_count["c"] = 1
    /\ hooks["c"].shutdown = 1
    /\ tasks_to_start["c"] = <<"sleeper">>

\* C24: with one call made at a time, add_runtime_dependency(c) on p appends
\* c; on a RUNNING p it starts the c that was in INIT, once, before it
\* returns c; on any other p it returns c at once and leaves c as it was,
\* and the next start of p, begun with c never started nor stopped, returns
\* with c RUNNING, started once; the stop of p leaves the child that was
\* RUNNING in SHUTDOWN, its on_stop fired once more.
C24_RuntimeDependency ==
    [][/\ AddRuntimeDependency("p", "c") =>
            /\ children'["p"] = Append(children["p"], "c")
            /\ IF state["p"] = "RUNNING"
               THEN state["c"] = "INIT" => (state'["c"] = "STARTING" /\ ret' = ret)
               ELSE /\ ret' = Result("add_runtime_dependency", "p", "c")
                    /\ state'["c"] = state["c"]
                    /\ hooks'["c"] = hooks["c"]
       /\ \A i \in FrameIds :
            /\ (Leaves(i) /\ frames[i].op = "add_runtime_dependency") =>
                  /\ ret' = Result("add_runtime_dependency", "p", "c")
                  /\ (frames[i].s0 = "RUNNING" /\ <<"c", "INIT">> \in frames[i].ch0) =>
                        /\ state'["c"] = "RUNNING"
                        /\ hooks'["c"].start = 1
            /\ (/\ StartReturns(i)
                /\ frames[i].svc = "p"
                /\ ret = Result("add_runtime_dependency", "p", "c")
                /\ frames[i].h0["c"] = NoHooks) =>
                  /\ state'["c"] = "RUNNING"
                  /\ hooks'["c"].start = 1
            /\ (/\ Leaves(i)
                /\ frames[i].op = "stop"
                /\ frames[i].svc = "p"
                /\ <<"c", "RUNNING">> \in frames[i].ch0) =>
                  /\ state'["c"] = "SHUTDOWN"
                  /\ hooks'["c"].stop = frames[i].h0["c"].stop + 1]_vars

\* C25: with one call made at a time, remove_dependency(c) on p with c in
\* the children removes c from the list, stops it (at once if c is stopped
\* already, otherwise the stop of c begins in the step of the call) and
\* returns it: a c that was RUNNING is in SHUTDOWN at the return, its
\* on_stop fired once more;
\* with c not in the children the call fails with the not-found error of
\* list.remove and changes no field of any service.
C25_RemoveDependency ==
    [][/\ RemoveDependency("p", "c") =>
            IF "c" \in Range(children["p"])
            THEN /\ children'["p"] = remove(children["p"], "c")
                 /\ IF stopped["c"]
                    THEN /\ ret' = Result("remove_dependency", "p", "c")
                         /\ state' = state
                         /\ hooks' = hooks
                    ELSE /\ ret' = ret
                         /\ state'["c"] = "STOPPING"
            ELSE /\ ret' = Result("remove_dependency", "p", "ValueError")
                 /\ UNCHANGED svc_vars
                 /\ FramesSame
       /\ \A i \in FrameIds :
            (Leaves(i) /\ frames[i].op = "remove_dependency") =>
                /\ ret' = Result("remove_dependency", "p", "c")
                /\ "c" \notin Range(children'["p"])
                /\ stopped'["c"]
                /\ <<"c", "RUNNING">> \in frames[i].ch0 =>
                      /\ state'["c"] = "SHUTDOWN"
                      /\ hooks'["c"].stop = frames[i].h0["c"].stop + 1
                      /\ hooks'["c"].shutdown = frames[i].h0["c"].shutdown + 1]_vars

\* remove_dependency(c) has returned c on the RUNNING parent: c, started
\* once by add_runtime_dependency, is in SHUTDOWN and no longer a child.
W_C25 ==
    /\ ret = Result("remove_dependency", "p", "c")
    /\ state["p"] = "RUNNING"
    /\ state["c"] = "SHUTDOWN"
    /\ hooks["c"].start = 1
    /\ hooks["c"].stop = 1
    /\ children["p"] = <<>>

\* C26: in every reachable state, a service with an unfinished task in its
\* task list is in STARTING, RUNNING or STOPPING.
C26_TasksOnlyWhileActive ==
    \A s \in Services :
        tasks[s] \cap UnfinishedNow # {} =>
            state[s] \in {"STARTING", "RUNNING", "STOPPING"}

\* The thread that the start run by frame i has created.
ThreadOf(i) == Thread(Cur, frames[i].th)

\* C27: a start of a thread-hosted service that has set RUNNING, and so
\* every start that returns, has seen parent_tasks_started set, and the
\* thread it created has begun its loop and created the tasks there.
C27_StartAfterThreadTasks ==
    \A i \in FrameIds :
        (/\ frames[i].op \in {"start", "maybe_start", "restart"}
         /\ klass[frames[i].svc] = "ServiceThread"
         /\ frames[i].pc = "st_count") =>
            /\ frames[i].th # 0
            /\ ThreadOf(i).started
            /\ ThreadOf(i).ev # 0

\* In this step op on service s is handed to loop l as a task of its own.
Dispatched(op, s, l) ==
    \E j \in FrameIds :
        /\ frames[j].op = "none"
        /\ frames'[j].op = op /\ frames'[j].svc = s
        /\ frames'[j].loop = l /\ frames'[j].wait = "pending"

\* In this step op on service s begins to run in a coroutine on loop l.
Direct(op, s, l) ==
    \E j \in FrameIds :
        /\ frames[j].op = "none"
        /\ frames'[j].op = op /\ frames'[j].svc = s
        /\ frames'[j].loop = l /\ frames'[j].wait # "pending"

\* C28: on a thread-hosted service whose thread runs its loop, a stop() or
\* crash() that has work to do is handed to the loop of the thread when it
\* is called on the parent loop, and runs in the calling coroutine when it
\* is called on the loop of the thread.
C28_CrossLoopDispatch ==
    [][\A s \in Services :
         (/\ klass[s] = "ServiceThread"
          /\ thread_data[s] # 0
          /\ thread_loop[s] # 0
          /\ Thread(Cur, thread_data[s]).parent_loop = 0) =>
             /\ (Stop(s) /\ ~stopped[s]) => Dispatched("stop", s, thread_loop[s])
             /\ \A r \in Reasons :
                    (Crash(s, r) /\ state[s] \in STATES_ACTIVE) =>
                        Dispatched("crash", s, thread_loop[s])
             /\ (StopFromChild(s) /\ ~stopped[s]) =>
                    \E x \in threads : Direct("stop", s, x.id)
             /\ \A r \in Reasons :
                    (CrashFromChild(s, r) /\ state[s] \in STATES_ACTIVE) =>
                        \E x \in threads : Direct("crash", s, x.id)]_vars

\* C29: when a stop() of a RUNNING thread-hosted service that no other call
\* overlaps returns, the tasks that were live have finished, every thread
\* of the service has ended (it was joined), and the thread data and the
\* reference to the thread's loop are cleared.
C29_ThreadJoined ==
    [][\A i \in FrameIds :
         (/\ Leaves(i)
          /\ frames[i].op = "stop"
          /\ frames[i].pc = "sd_reset"
          /\ frames[i].solo
          /\ frames[i].s0 = "RUNNING"
          /\ klass[frames[i].svc] = "ServiceThread") =>
             LET s == frames[i].svc
             IN  /\ frames[i].t0 \cap {r.id : r \in tstat'} = {}
                 /\ thread_data'[s] = 0
                 /\ thread_loop'[s] = 0
                 /\ \A x \in threads' : x.svc = s => x.pc = "done"]_vars

\* C30: the step in which a cancelled task ends removes the task and
\* changes nothing else: the body is not invoked again, no attempt of
\* another task is counted and no crash is scheduled; a stop() of a RUNNING
\* service with unfinished tasks, overlapped by no other call, returns with
\* the service in SHUTDOWN, without crash reason, its tasks finished.
C30_CancelIsNotFailure ==
    [][/\ \A t \in UnfinishedNow :
            TaskCancelled(t) =>
                /\ tstat' = {r \in tstat : r.id # t}
                /\ hooks' = hooks
                /\ frames' = frames
                /\ state' = state
                /\ crash_reason' = crash_reason
       /\ \A i \in FrameIds :
            (/\ Leaves(i)
             /\ frames[i].op = "stop"
             /\ frames[i].pc = "sd_reset"
             /\ frames[i].solo
             /\ frames[i].s0 = "RUNNING"
             /\ frames[i].t0 # {}) =>
                LET s == frames[i].svc
                IN  /\ state'[s] = "SHUTDOWN"
                    /\ crash_reason'[s] = "None"
                    /\ frames[i].t0 \cap {r.id : r \in tstat'} = {}
                    /\ \A j \in FrameIds : frames'[j].op # "crash"]_vars

\* The service with a task that never ends by itself was started and
\* stopped: the stop has cancelled the task and returned, the service is in
\* SHUTDOWN.
W_C30 ==
    /\ ret = Result("stop", "c", "ok")
    /\ Quiet
    /\ state["c"] = "SHUTDOWN"
    /\ start_count["c"] = 1
    /\ tasks_to_start["c"] = <<"sleeper">>
    /\ UnfinishedNow = {}

\* C31: the body of a registered timer is invoked only in a step in which
\* the sleep of a timer of the service ends with should_stop clear, never
\* in the step that creates the task; a timer whose sleep ends with
\* should_stop set ends in that step, and the step changes nothing else:
\* no invocation, no attempt counted, no crash scheduled.
C31_TimerChecksShouldStop ==
    [][\A s \in Services :
         /\ hooks'[s].timer_run # hooks[s].timer_run =>
                /\ ~should_stop[s]
                /\ hooks'[s].timer_run = hooks[s].timer_run + 1
                /\ \E r \in tstat :
                       /\ r.id[1] = s /\ r.id[2] > 0
                       /\ tasks_to_start[s][r.id[2]] = "timer"
                       /\ TimerWake(r.id)
                       /\ r \in tstat'
         /\ \A r \in tstat :
                (/\ r.id[1] = s
                 /\ TimerWake(r.id)
                 /\ should_stop[s]) =>
                    /\ tstat' = tstat \ {r}
                    /\ hooks' = hooks
                    /\ frames' = frames
                    /\ state' = state
                    /\ crash_reason' = crash_reason]_vars

\* The registered timer of c has run its body once and then, waking up
\* with should_stop set while the stop of c had not yet cancelled the
\* tasks, has ended: the task is finished and was never cancelled.
W_C31 ==
    /\ tasks_to_start["c"] = <<"timer">>
    /\ hooks["c"].timer_run = 1
    /\ should_stop["c"]
    /\ <<"c", 1, 1>> \in tasks["c"] \ UnfinishedNow
    /\ \E i \in FrameIds :
           /\ frames[i].op = "stop" /\ frames[i].pc = "srt_cancel"
           /\ frames[i].solo /\ frames[i].s0 = "RUNNING"
           /\ <<"c", 1, 1>> \in frames[i].snap

\* The resources registered with service s and not yet handed to a stack.
Pending(s) == Range(context_managers[s]) \cup Range(async_context_managers[s])

\* C32: with one call made at a time and the resources registered while the
\* service is RUNNING, the step that registers a resource acquires nothing,
\* nothing is acquired while the service stays RUNNING, and a registered
\* resource stays registered until the step in which a start acquires it.
C32_LateRegistration ==
    [][\A s \in Services :
         /\ (state[s] = "RUNNING" /\ state'[s] = "RUNNING") => rlog' = rlog
         /\ \A r \in Res :
                (/\ r \in Pending(s)
                 /\ r \notin Range(context_managers'[s])
                 /\ r \notin Range(async_context_managers'[s])) =>
                    /\ state[s] = "STARTING"
                    /\ \E n \in (Len(rlog) + 1)..Len(rlog') :
                           rlog'[n] = <<"acquire", s, r>>]_vars

\* The hooks of the restart run by frame i have fired in order so far:
\* each of on_stop, on_shutdown, on_restart, on_start, on_started at most
\* once, and only if the one before it has; and once on_restart has fired
\* the service has no crash reason.
RestartOrder(i) ==
    LET s == frames[i].svc
        h == hooks[s]
        g == frames[i].h0[s]
    IN  /\ h.stop \in {g.stop, g.stop + 1}
        /\ h.shutdown \in {g.shutdown, g.shutdown + 1}
        /\ h.restart \in {g.restart, g.restart + 1}
        /\ h.start \in {g.start, g.start + 1}
        /\ h.started \in {g.started, g.started + 1}
        /\ h.started > g.started => h.start > g.start
        /\ h.start > g.start => h.restart > g.restart
        /\ h.restart > g.restart => (h.shutdown > g.shutdown /\ crash_reason[s] = "None")
        /\ h.shutdown > g.shutdown => h.stop > g.stop

\* C33: with one call made at a time, on_restart fires only in a step of a
\* restart(); in every state of a restart() its hooks have fired in the
\* order on_stop, on_shutdown, on_restart, on_start, on_started, the reason
\* of a crash being cleared when on_restart fires; and when the restart
\* returns each of the five has fired exactly once.
C33_RestartHooks ==
    [][/\ \A s \in Services :
            hooks'[s].restart # hooks[s].restart =>
                \E i \in FrameIds :
                    /\ frames[i].op = "restart" /\ frames[i].svc = s
                    /\ frames[i].pc = "sd_reset"
                    /\ frames'[i].pc = "start"
       /\ \A i \in FrameIds :
            /\ (frames'[i].op = "restart" /\ frames'[i].s0 # "-") => RestartOrder(i)'
            /\ (Leaves(i) /\ frames[i].op = "restart" /\ frames[i].s0 # "-") =>
                  LET s == frames[i].svc
                      g == frames[i].h0[s]
                  IN  /\ hooks'[s].stop = g.stop + 1
                      /\ hooks'[s].shutdown = g.shutdown + 1
                      /\ hooks'[s].restart = g.restart + 1
                      /\ hooks'[s].start = g.start + 1
                      /\ hooks'[s].started = g.started + 1
                      /\ crash_reason'[s] = "None"]_vars

\* The restart of the CRASHED service p is in its on_restart hook: on_stop
\* and on_shutdown have fired, on_start has not, and the reason is cleared.
W_C33 ==
    \E i \in FrameIds :
        /\ frames[i].op = "restart" /\ frames[i].svc = "p"
        /\ frames[i].s0 = "CRASHED"
        /\ frames[i].pc = "start" /\ frames[i].wait = "hook"
        /\ hooks["p"] = [frames[i].h0["p"] EXCEPT !.stop = @ + 1,
                                                  !.shutdown = @ + 1,
                                                  !.restart = @ + 1]
        /\ crash_reason["p"] = "None"

\* The resources that the log shows acquired and not released, in the
\* order of their acquisition.
HeldInOrder(log) ==
    LET q == SelectSeq(log, LAMBDA e :
                 e[1] = "acquire" /\ <<"release", e[2], e[3]>> \notin Range(log))
    IN  [k \in 1..Len(q) |-> q[k][3]]

\* C34: when a stop() that ran the shutdown and that no other call overlaps
\* returns, the service has released the resources it held, those of both
\* stacks taken together, in the reverse of the order in which it acquired
\* them.
C34_ReleaseReversesAcquisition ==
    [][\A i \in FrameIds :
         (/\ Leaves(i)
          /\ frames[i].op = "stop"
          /\ frames[i].pc = "sd_reset"
          /\ frames[i].solo) =>
             LET s == frames[i].svc
                 log0 == frames[i].r0.log
             IN  OwnLog(rlog', s) = log0 \o Released(s, HeldInOrder(log0))]_vars

\* Frame i runs a crash() that a task of the service scheduled.
Scheduled(i) ==
    /\ frames[i].op = "crash"
    /\ frames[i].caller = 0
    /\ ~frames[i].ext

\* C35: the child-watch task that finds a CRASHED child of its RUNNING
\* service creates a pending crash() of the service with the child's reason
\* and goes on living, the tasks of the service being as before; the
\* scheduled crash that found the service RUNNING or STOPPING waits for
\* tasks only, cancels those of them that are unfinished, the child-watch
\* task included, and returns with the service CRASHED; and it does return:
\* the service reaches CRASHED.
C35_ScheduledCrashCompletes ==
    /\ [][/\ \A r \in tstat :
               (/\ TimerWake(r.id)
                /\ r.id[2] = 0
                /\ state[r.id[1]] = "RUNNING"
                /\ ~should_stop[r.id[1]]
                /\ \E c \in Range(children[r.id[1]]) : state[c] = "CRASHED") =>
                   /\ tasks' = tasks
                   /\ tstat' = tstat
                   /\ \E j \in FrameIds :
                          /\ frames[j].op = "none"
                          /\ Scheduled(j)'
                          /\ frames'[j].wait = "pending"
                          /\ frames'[j].svc = r.id[1]
                          /\ \E c \in Range(children[r.id[1]]) :
                                 /\ state[c] = "CRASHED"
                                 /\ frames'[j].reason = crash_reason[c]
          /\ \A i \in FrameIds :
               (Scheduled(i) /\ frames'[i].s0 \in STATES_ACTIVE) =>
                   LET s == frames[i].svc
                   IN  /\ frames'[i].snap \subseteq frames'[i].t0
                       /\ (frames[i].pc = "srt_cancel" /\ frames'[i].pc = "srt_done") =>
                              \A x \in tstat' :
                                  x.id \in frames[i].snap => x.st = "cancel"
                       /\ (frames[i].wait = "pending" /\ frames'[i].op # "none") =>
                              frames'[i].snap = {x.id : x \in {y \in tstat : y.id \in tasks[s]}}
          /\ \A i \in FrameIds :
               (Leaves(i) /\ Scheduled(i) /\ frames[i].s0 \in STATES_ACTIVE) =>
                   /\ state'[frames[i].svc] = "CRASHED"
                   /\ crash_reason'[frames[i].svc] = frames[i].reason
                   /\ frames[i].t0 \cap UnfinishedNow' = {}]_vars
    /\ (\E i \in FrameIds : Scheduled(i) /\ frames[i].s0 \in STATES_ACTIVE)
           ~> (state["p"] = "CRASHED")

\* The crash that the child-watch task of p scheduled for the crash of c
\* waits for that task, which it has cancelled.
W_C35 ==
    \E i \in FrameIds :
        /\ Scheduled(i)
        /\ frames[i].svc = "p"
        /\ frames[i].s0 = "RUNNING"
        /\ frames[i].reason = crash_reason["c"]
        /\ state["c"] = "CRASHED"
        /\ frames[i].wait = "tasks"
        /\ \E x \in tstat : x.id \in frames[i].snap /\ x.id[2] = 0 /\ x.st = "cancel"

\* The number of entries e of the log.
Count(log, e) == Cardinality({k \in 1..Len(log) : log[k] = e})

\* C36: in the one run of a service that is started once and then stopped,
\* also by a stop() called while an earlier stop() is in progress, on_stop
\* and on_shutdown fire at most once and each resource is released at most
\* once.
C36_ShutdownRunsOnce ==
    /\ hooks["p"].stop <= 1
    /\ hooks["p"].shutdown <= 1
    /\ \A r \in Res : Count(rlog, <<"release", "p", r>>) <= 1

\* C37: a service on which only start() and stop() are called, a stop()
\* also while a start() is in progress, is never RUNNING with stopped set,
\* and once no call is in progress and stopped is set it is in SHUTDOWN
\* with no unfinished task.
C37_StopDuringStart ==
    /\ ~(state["c"] = "RUNNING" /\ stopped["c"])
    /\ (Quiet /\ stopped["c"]) =>
           /\ state["c"] = "SHUTDOWN"
           /\ tasks["c"] \cap UnfinishedNow = {}

\* The call made in this step is refused with val and changes nothing.
Refused(op, s, val) ==
    /\ ret' = Result(op, s, val)
    /\ UNCHANGED svc_vars
    /\ FramesSame

C40_UnfinishedTasksAreLive ==
    \A r \in tstat : r.id \in tasks[r.id[1]]

====
